---- MODULE Spec2Model ----
(***************************************************************************)
(* Model of the langium stream library (StreamImpl, TreeStreamImpl,        *)
(* stream()) of src/unnamed/part_000.                                      *)
(*                                                                         *)
(* A stream value is a record describing how it was built; the variables   *)
(* captured by its closures (the iterator captured by concat, the Set      *)
(* captured by distinct) are fields of that record, because they belong to *)
(* the stream value and not to a cursor.  startFn and nextFn are operators *)
(* that return the new cursor state together with the stream value as      *)
(* changed by the call.                                                    *)
(***************************************************************************)
EXTENDS Integers, Sequences, FiniteSets, TLC

VARIABLES strm, fresh, cursors, arrays, results, grammar, server

vars == <<strm, fresh, cursors, arrays, results, grammar, server>>

(***************************************************************************)
(* Bounds                                                                  *)
(***************************************************************************)
MaxLen == 2
MaxNodes == 3
MaxChain == 1
MaxCursors == 2
MaxCalls == 4
MaxToArray == 2
MaxOther == 1
MaxDepth == 2
MaxOps == 1

(***************************************************************************)
(* JavaScript values: tagged records.  Arrays carry an identity, because   *)
(* === and Set membership compare objects by reference.                    *)
(***************************************************************************)
Undefined == [t |-> "undefined"]
Num(n) == [t |-> "number", v |-> n]
Bool(b) == [t |-> "boolean", v |-> b]
Str(s) == [t |-> "string", v |-> s]
Arr(id, es) == [t |-> "array", id |-> id, v |-> es]
Null == [t |-> "null"]
\* a plain object; `length` is its length property (undefined when it has none)
\* and `v` its indexed properties 0, 1, ...
Obj(length, es) == [t |-> "object", length |-> length, v |-> es]

PAIR == Arr(<<"PAIR">>, <<Num(2), Undefined>>)
NONE == Arr(<<"NONE">>, <<>>)

Elems == {Undefined, Num(1), Num(2), PAIR}

RECURSIVE SeqsUpTo(_, _)
SeqsUpTo(S, n) ==
    IF n = 0 THEN {<<>>}
    ELSE LET shorter == SeqsUpTo(S, n - 1)
         IN  shorter \cup {Append(q, e) : q \in shorter, e \in S}

Arrays == SeqsUpTo(Elems, MaxLen)

\* ToBoolean of the language: what `if (v)` and `!v` test
Truthy(v) ==
    CASE v.t = "undefined" -> FALSE
      [] v.t = "boolean" -> v.v
      [] v.t = "number" -> v.v # 0
      [] v.t = "string" -> v.v # ""
      [] OTHER -> TRUE

(***************************************************************************)
(* Caller-supplied callbacks (pure, no mutable capture), by name.          *)
(***************************************************************************)
MapFns == {"swap", "void"}
Preds == {"self", "notOne"}
FlatFns == {"self", "twice", "none"}
KeyFns == {"noBy", "typeof"}

\* x => x,   x => TWICE.get(x) (a constant array [x, x] per x),   x => NONE
ApplyFlat(f, x) ==
    CASE f = "self" -> x
      [] f = "twice" -> Arr(<<"TWICE", x>>, <<x, x>>)
      [] f = "none" -> NONE

\* x => x === 1 ? 2 : x === 2 ? 1 : x      and      x => undefined;
\* map takes the callbacks of flatMap as well
ApplyMap(f, x) ==
    CASE f = "swap" -> (IF x = Num(1) THEN Num(2) ELSE IF x = Num(2) THEN Num(1) ELSE x)
      [] f = "void" -> Undefined
      [] f \in FlatFns -> ApplyFlat(f, x)

\* x => x      and      x => x !== 1
ApplyPred(p, x) ==
    CASE p = "self" -> x
      [] p = "notOne" -> Bool(x # Num(1))

\* distinct(): by omitted;   distinct(x => typeof x)
ApplyKey(by, x) ==
    CASE by = "noBy" -> x
      [] by = "typeof" -> Str(IF x.t = "array" THEN "object" ELSE x.t)

(***************************************************************************)
(* Step results.  `thrown` marks a call that raised an exception instead   *)
(* of returning an IteratorResult.                                         *)
(***************************************************************************)
DONE_RESULT == [thrown |-> FALSE, done |-> TRUE, value |-> Undefined]
Value(v) == [thrown |-> FALSE, done |-> FALSE, value |-> v]
THROWN == [thrown |-> TRUE, done |-> FALSE, value |-> Undefined]

\* typeof obj[Symbol.iterator] === 'function'
isIterable(obj) == obj.t \in {"array", "string"}
\* reading a property of undefined raises a TypeError
isIterableThrows(obj) == obj.t \in {"undefined", "null"}

\* what nextFn / iterator.next() hands back: result, cursor state, stream value
\* `log` lists what happened inside the call, in order: the nextFn calls made
\* on the sources (ev "step", arg: what the call returned) and the callback
\* invocations (ev "call", arg: the argument); `by` names who did it and `at`
\* is its place in the chain of streams, counted from the collection
R(res, st, s) == [result |-> res, state |-> st, strm |-> s, log |-> <<>>]
\* F(v), with v evaluated once
With(v, F(_)) == CHOOSE y \in {F(x) : x \in {v}} : TRUE

\* r, with `events` having happened before what r did itself
Logged(r, events) == [r EXCEPT !.log = events \o @]

IsValue(r) == ~r.result.thrown /\ ~r.result.done

\* the iterator of an array: collection[Symbol.iterator]()
ArrayIterator(es) == [elems |-> es, index |-> 0]
NoIterator == [elems |-> <<>>, index |-> -1]

ArrayIteratorNext(it) ==
    IF it.index < Len(it.elems)
    THEN [result |-> Value(it.elems[it.index + 1]), it |-> [it EXCEPT !.index = it.index + 1]]
    ELSE [result |-> DONE_RESULT, it |-> it]

(***************************************************************************)
(* Trees: nodes 1..n below the root 0, parent[i] < i; the children of a    *)
(* node are listed in ascending order.                                     *)
(***************************************************************************)
RECURSIVE ParentFns(_)
ParentFns(n) ==
    IF n = 0 THEN {<<>>}
    ELSE {Append(q, p) : q \in ParentFns(n - 1), p \in 0..(n - 1)}

Trees == UNION {ParentFns(n) : n \in 0..MaxNodes}

RECURSIVE ChildrenFrom(_, _, _)
ChildrenFrom(parent, v, i) ==
    IF i > Len(parent) THEN <<>>
    ELSE (IF parent[i] = v THEN <<Num(i)>> ELSE <<>>) \o ChildrenFrom(parent, v, i + 1)

\* the `children` function handed to the TreeStreamImpl constructor
children(parent, node) == ChildrenFrom(parent, node.v, 1)

(***************************************************************************)
(* Stream values                                                           *)
(***************************************************************************)
\* [[1, [2, 3]], [4]]
NESTED ==
    <<Arr(<<"N1">>, <<Num(1), Arr(<<"N23">>, <<Num(2), Num(3)>>)>>), Arr(<<"N4">>, <<Num(4)>>)>>

Sources ==
    {[op |-> "array", elems |-> a] : a \in Arrays \cup {NESTED}}
    \cup {[op |-> "tree", root |-> Num(0), parent |-> p] : p \in Trees}

WithSrc(s, src) == [s EXCEPT !.src = src]

RECURSIVE ChainLen(_)
ChainLen(s) == IF s.op \in {"array", "tree"} THEN 0 ELSE 1 + ChainLen(s.src)

Ev(ev, by, s, arg) == [ev |-> ev, by |-> by, at |-> ChainLen(s), arg |-> arg]

StepEv(by, s, r) == Ev("step", by, s, r.result)

RECURSIVE StartFn(_)
RECURSIVE NextFn(_, _)

\* stream(collection), the isIterable branch: nextFn is iterator => iterator.next()
ArrayNext(s, st) ==
    LET n == ArrayIteratorNext(st)
    IN  R(n.result, n.it, s)

\* stream(collection), the ArrayLike branch
ArrayLikeNext(s, st) ==
    IF st.index < s.collection.length.v
    THEN R(Value(IF st.index + 1 \in DOMAIN s.collection.v
                 THEN s.collection.v[st.index + 1] ELSE Undefined),
           [index |-> st.index + 1], s)
    ELSE R(DONE_RESULT, st, s)

\* a map that invokes its callback twice per element
MapNextTwice(s, st) ==
    LET r == NextFn(s.src, st)
        s2 == WithSrc(s, r.strm)
        events == r.log \o <<StepEv("map", s, r)>>
                        \o (IF IsValue(r) THEN <<Ev("call", "map", s, r.result.value),
                                                 Ev("call", "map", s, r.result.value)>> ELSE <<>>)
    IN  Logged(IF r.result.thrown THEN R(THROWN, r.state, s2)
               ELSE IF r.result.done THEN R(DONE_RESULT, r.state, s2)
               ELSE R(Value(ApplyMap(s.f, r.result.value)), r.state, s2),
               events)

MapNext(s, st) ==
    With(NextFn(s.src, st), LAMBDA r :
    LET s2 == WithSrc(s, r.strm)
        events == r.log \o <<StepEv("map", s, r)>>
                        \o (IF IsValue(r) THEN <<Ev("call", "map", s, r.result.value)>> ELSE <<>>)
    IN  Logged(IF r.result.thrown THEN R(THROWN, r.state, s2)
               ELSE IF r.result.done THEN R(DONE_RESULT, r.state, s2)
               ELSE R(Value(ApplyMap(s.f, r.result.value)), r.state, s2),
               events))

\* mutant of FilterNext: gives up at the first element the predicate rejects
FilterNextStop(s, st) ==
    LET r == NextFn(s.src, st)
        s2 == WithSrc(s, r.strm)
    IN  IF r.result.thrown THEN R(THROWN, r.state, s2)
        ELSE IF ~r.result.done /\ Truthy(ApplyPred(s.p, r.result.value)) THEN R(r.result, r.state, s2)
        ELSE R(DONE_RESULT, r.state, s2)

RECURSIVE FilterNext(_, _)
\* a filter that advances its source once more after the element it returns
FilterNextAhead(s, st) ==
    LET r == NextFn(s.src, st)
        s2 == WithSrc(s, r.strm)
        ahead == NextFn(r.strm, r.state)
        events == r.log \o <<StepEv("filter", s, r)>>
                        \o (IF IsValue(r) THEN <<Ev("call", "filter", s, r.result.value)>> ELSE <<>>)
    IN  Logged(IF r.result.thrown THEN R(THROWN, r.state, s2)
               ELSE IF ~r.result.done /\ Truthy(ApplyPred(s.p, r.result.value))
               THEN Logged(R(r.result, ahead.state, WithSrc(s, ahead.strm)),
                           ahead.log \o <<StepEv("filter", s, ahead)>>)
               ELSE IF ~r.result.done THEN FilterNext(s2, r.state)
               ELSE R(DONE_RESULT, r.state, s2),
               events)

FilterNext(s, st) ==
    With(NextFn(s.src, st), LAMBDA r :
    LET s2 == WithSrc(s, r.strm)
        events == r.log \o <<StepEv("filter", s, r)>>
                        \o (IF IsValue(r) THEN <<Ev("call", "filter", s, r.result.value)>> ELSE <<>>)
    IN  Logged(IF r.result.thrown THEN R(THROWN, r.state, s2)
               ELSE IF ~r.result.done /\ Truthy(ApplyPred(s.p, r.result.value))
               THEN R(r.result, r.state, s2)
               ELSE IF ~r.result.done THEN FilterNext(s2, r.state)
               ELSE R(DONE_RESULT, r.state, s2),
               events))

\* mutant of ConcatOther: takes a new iterator of `other` once the old one is exhausted
ConcatOtherRestart(s, st) ==
    LET r == NextFn(s.other, s.iterator)
        s2 == [s EXCEPT !.other = r.strm, !.iterator = r.state]
    IN  IF r.result.thrown THEN R(THROWN, st, s2)
        ELSE IF ~r.result.done THEN R(r.result, st, s2)
        ELSE R(DONE_RESULT, st, [s2 EXCEPT !.iterator = StartFn(r.strm).state])

\* the second half of concat's nextFn: the captured iterator of `other`
ConcatOther(s, st) ==
    With(NextFn(s.other, s.iterator), LAMBDA r :
    LET s2 == [s EXCEPT !.other = r.strm, !.iterator = r.state]
    IN  Logged(IF r.result.thrown THEN R(THROWN, st, s2)
               ELSE IF ~r.result.done THEN R(r.result, st, s2)
               ELSE R(DONE_RESULT, st, s2),
               r.log \o <<StepEv("concat.other", s, r)>>))

\* a concat that asks the first source again on every call
ConcatNextAskAgain(s, st) ==
    LET r == NextFn(s.src, st.first)
        s2 == WithSrc(s, r.strm)
    IN  Logged(IF r.result.thrown THEN R(THROWN, [st EXCEPT !.first = r.state], s2)
               ELSE IF ~r.result.done THEN R(r.result, [st EXCEPT !.first = r.state], s2)
               ELSE ConcatOther(s2, [first |-> r.state, firstDone |-> TRUE]),
               r.log \o <<StepEv("concat.first", s, r)>>)

ConcatNext(s, st) ==
    IF ~st.firstDone
    THEN With(NextFn(s.src, st.first), LAMBDA r :
         LET s2 == WithSrc(s, r.strm)
         IN  Logged(IF r.result.thrown THEN R(THROWN, [st EXCEPT !.first = r.state], s2)
                    ELSE IF ~r.result.done THEN R(r.result, [st EXCEPT !.first = r.state], s2)
                    ELSE ConcatOther(s2, [first |-> r.state, firstDone |-> TRUE]),
                    r.log \o <<StepEv("concat.first", s, r)>>))
    ELSE ConcatOther(s, st)

RECURSIVE FlatMapNext(_, _)
RECURSIVE FlatMapPull(_, _)

\* a flatMap that yields what the callback returns without looking into it
FlatMapPullUnflattened(s, st) ==
    LET r == NextFn(s.src, st.this)
        s2 == WithSrc(s, r.strm)
        st2 == [st EXCEPT !.this = r.state]
        mapped == ApplyFlat(s.f, r.result.value)
    IN  IF r.result.thrown THEN R(THROWN, st2, s2)
        ELSE IF r.result.done THEN R(DONE_RESULT, st2, s2)
        ELSE R(Value(mapped), st2, s2)

\* flatMap's nextFn from `const { done, value } = this.nextFn(state.this)` on
FlatMapPull(s, st) ==
    With(NextFn(s.src, st.this), LAMBDA r :
    LET s2 == WithSrc(s, r.strm)
        st2 == [st EXCEPT !.this = r.state]
        mapped == ApplyFlat(s.f, r.result.value)
        events == r.log \o <<StepEv("flatMap", s, r)>>
                        \o (IF IsValue(r) THEN <<Ev("call", "flatMap", s, r.result.value)>> ELSE <<>>)
    IN  Logged(IF r.result.thrown THEN R(THROWN, st2, s2)
               ELSE IF r.result.done THEN R(DONE_RESULT, st2, s2)
               ELSE IF isIterableThrows(mapped) THEN R(THROWN, st2, s2)
               ELSE IF isIterable(mapped)
                    THEN FlatMapNext(s2, [st2 EXCEPT !.iterator = ArrayIterator(mapped.v)])
                    ELSE R(Value(mapped), st2, s2),
               events))

FlatMapNext(s, st) ==
    IF st.iterator # NoIterator
    THEN LET n == ArrayIteratorNext(st.iterator)
         IN  IF n.result.done
             THEN FlatMapPull(s, [st EXCEPT !.iterator = NoIterator])
             ELSE R(n.result, [st EXCEPT !.iterator = n.it], s)
    ELSE FlatMapPull(s, st)

RECURSIVE FlatNext(_, _)
RECURSIVE FlatPull(_, _)

\* flat's nextFn from `const { done, value } = stream.nextFn(state.this)` on
FlatPull(s, st) ==
    With(NextFn(s.src, st.this), LAMBDA r :
    LET s2 == WithSrc(s, r.strm)
        st2 == [st EXCEPT !.this = r.state]
        value == r.result.value
    IN  Logged(IF r.result.thrown THEN R(THROWN, st2, s2)
               ELSE IF r.result.done THEN R(DONE_RESULT, st2, s2)
               ELSE IF isIterableThrows(value) THEN R(THROWN, st2, s2)
               ELSE IF isIterable(value)
                    THEN FlatNext(s2, [st2 EXCEPT !.iterator = ArrayIterator(value.v)])
                    ELSE R(Value(value), st2, s2),
               r.log \o <<StepEv("flat", s, r)>>))

FlatNext(s, st) ==
    IF st.iterator # NoIterator
    THEN LET n == ArrayIteratorNext(st.iterator)
         IN  IF n.result.done
             THEN FlatPull(s, [st EXCEPT !.iterator = NoIterator])
             ELSE R(n.result, [st EXCEPT !.iterator = n.it], s)
    ELSE FlatPull(s, st)

\* tail hands the source's nextFn on unchanged
TailNext(s, st) ==
    With(NextFn(s.src, st), LAMBDA r :
        Logged(R(r.result, r.state, WithSrc(s, r.strm)), r.log \o <<StepEv("tail", s, r)>>))

\* distinct is this.filter(e => ...) with a predicate that reads and writes `set`
RECURSIVE DistinctNext(_, _)
DistinctNext(s, st) ==
    With(NextFn(s.src, st), LAMBDA r :
    LET s2 == WithSrc(s, r.strm)
        value == ApplyKey(s.by, r.result.value)
    IN  Logged(IF r.result.thrown THEN R(THROWN, r.state, s2)
               ELSE IF r.result.done THEN R(DONE_RESULT, r.state, s2)
               ELSE IF value \in s2.set THEN DistinctNext(s2, r.state)
               ELSE R(r.result, r.state, [s2 EXCEPT !.set = s2.set \cup {value}]),
               r.log \o <<StepEv("distinct", s, r)>>))

\* Array.prototype.pop: removes the last entry, does nothing on an empty array
Pop(q) == IF Len(q) = 0 THEN q ELSE SubSeq(q, 1, Len(q) - 1)

RECURSIVE TreeLoop(_, _)

\* mutant of TreeLoop: returns a node without opening an iterator over its children
TreeLoopNoDescent(s, st) ==
    IF Len(st.iterators) > 0
    THEN LET top == Len(st.iterators)
             n == ArrayIteratorNext(st.iterators[top])
         IN  IF n.result.done
             THEN TreeLoop(s, [st EXCEPT !.iterators = Pop(st.iterators)])
             ELSE R(n.result, [st EXCEPT !.iterators = [st.iterators EXCEPT ![top] = n.it]], s)
    ELSE R(DONE_RESULT, st, s)

\* mutant of TreeLoop: descends into the returned node in place of the level it
\* was found on, so that the level is no longer open
TreeLoopReplaceTop(s, st) ==
    IF Len(st.iterators) > 0
    THEN LET top == Len(st.iterators)
             n == ArrayIteratorNext(st.iterators[top])
         IN  IF n.result.done
             THEN TreeLoop(s, [st EXCEPT !.iterators = Pop(st.iterators)])
             ELSE R(n.result,
                    [st EXCEPT !.iterators =
                        [st.iterators EXCEPT ![top] =
                            ArrayIterator(children(s.parent, n.result.value))]],
                    s)
    ELSE R(DONE_RESULT, st, s)

\* mutant of TreeNext: drops the top iterator and leaves the prune request set
TreeNextSticky(s, st) ==
    IF st.pruned
    THEN TreeLoop(s, [iterators |-> Pop(st.iterators), pruned |-> TRUE])
    ELSE TreeLoop(s, st)

\* the while loop of TreeStreamImpl's nextFn
TreeLoop(s, st) ==
    IF Len(st.iterators) > 0
    THEN LET top == Len(st.iterators)
             n == ArrayIteratorNext(st.iterators[top])
         IN  IF n.result.done
             THEN TreeLoop(s, [st EXCEPT !.iterators = Pop(st.iterators)])
             ELSE R(n.result,
                    [st EXCEPT !.iterators =
                        Append([st.iterators EXCEPT ![top] = n.it],
                               ArrayIterator(children(s.parent, n.result.value)))],
                    s)
    ELSE R(DONE_RESULT, st, s)

\* mutant of TreeNext: clears the prune request without dropping the top iterator
TreeNextKeep(s, st) ==
    TreeLoop(s, [st EXCEPT !.pruned = FALSE])

\* mutant of TreeNext: a prune request is ignored while only the level of the
\* root's children is open
TreeNextKeepRoot(s, st) ==
    IF st.pruned /\ Len(st.iterators) > 1
    THEN TreeLoop(s, [iterators |-> Pop(st.iterators), pruned |-> FALSE])
    ELSE TreeLoop(s, [st EXCEPT !.pruned = FALSE])

TreeNext(s, st) ==
    IF st.pruned
    THEN TreeLoop(s, [iterators |-> Pop(st.iterators), pruned |-> FALSE])
    ELSE TreeLoop(s, st)

NextFn(s, st) ==
    CASE s.op = "array" -> ArrayNext(s, st)
      [] s.op = "map" -> MapNext(s, st)
      [] s.op = "filter" -> FilterNext(s, st)
      [] s.op = "concat" -> ConcatNext(s, st)
      [] s.op = "flatMap" -> FlatMapNext(s, st)
      [] s.op = "flat" -> FlatNext(s, st)
      [] s.op = "tail" -> TailNext(s, st)
      [] s.op = "distinct" -> DistinctNext(s, st)
      [] s.op = "tree" -> TreeNext(s, st)
      [] s.op = "arrayLike" -> ArrayLikeNext(s, st)
      [] s.op = "empty" -> R(DONE_RESULT, st, s)

\* what startFn hands back: the fresh cursor state and the stream value
B(st, s, thrown) == [state |-> st, strm |-> s, thrown |-> thrown, steps |-> 0, log |-> <<>>]

\* the for loop of tail's startFn; `steps` counts its this.nextFn(state) calls
RECURSIVE TailSkip(_, _, _)
TailSkip(s, st, i) ==
    IF i < s.skipCount
    THEN With(NextFn(s.src, st), LAMBDA r :
         LET s2 == WithSrc(s, r.strm)
             b == IF r.result.thrown
                  THEN [B(r.state, s2, TRUE) EXCEPT !.steps = i + 1]
                  ELSE IF r.result.done
                  THEN [B(r.state, s2, FALSE) EXCEPT !.steps = i + 1]
                  ELSE TailSkip(s2, r.state, i + 1)
         IN  [b EXCEPT !.log = r.log \o <<StepEv("tail", s, r)>> \o @])
    ELSE [B(st, s, FALSE) EXCEPT !.steps = i]

StartFn(s) ==
    CASE s.op = "array" -> B(ArrayIterator(s.elems), s, FALSE)
      [] s.op \in {"map", "filter", "distinct"} ->
            With(StartFn(s.src), LAMBDA b : B(b.state, WithSrc(s, b.strm), b.thrown))
      [] s.op = "concat" ->
            With(StartFn(s.src), LAMBDA b :
                B([first |-> b.state, firstDone |-> FALSE], WithSrc(s, b.strm), b.thrown))
      [] s.op \in {"flatMap", "flat"} ->
            With(StartFn(s.src), LAMBDA b :
                B([this |-> b.state, iterator |-> NoIterator], WithSrc(s, b.strm), b.thrown))
      [] s.op = "tail" ->
            With(StartFn(s.src), LAMBDA b :
                IF b.thrown THEN B(b.state, WithSrc(s, b.strm), TRUE)
                ELSE TailSkip(WithSrc(s, b.strm), b.state, 0))
      [] s.op = "tree" ->
            B([iterators |-> <<ArrayIterator(children(s.parent, s.root))>>, pruned |-> FALSE],
              s, FALSE)
      [] s.op = "arrayLike" -> B([index |-> 0], s, FALSE)
      [] s.op = "empty" -> B(Undefined, s, FALSE)

EMPTY_STREAM == [op |-> "empty"]

\* stream(collection); a StreamImpl is handed in as [t |-> "stream", v |-> its value]
stream(collection) ==
    IF collection.t = "stream" THEN [thrown |-> FALSE, strm |-> collection.v]
    ELSE IF isIterableThrows(collection) THEN [thrown |-> TRUE, strm |-> EMPTY_STREAM]
    ELSE IF isIterable(collection)
    THEN [thrown |-> FALSE, strm |-> [op |-> "array", elems |-> collection.v]]
    ELSE IF collection.t = "object" /\ collection.length.t = "number"
    THEN [thrown |-> FALSE, strm |-> [op |-> "arrayLike", collection |-> collection]]
    ELSE [thrown |-> FALSE, strm |-> EMPTY_STREAM]

(***************************************************************************)
(* Combinators: each builds a new stream value around `s`.                 *)
(***************************************************************************)
map(s, f) == [op |-> "map", src |-> s, f |-> f]

filter(s, p) == [op |-> "filter", src |-> s, p |-> p]

\* `const iterator = other[Symbol.iterator]()` runs when concat is called
concat(s, other) ==
    With(StartFn(other), LAMBDA b :
        [op |-> "concat", src |-> s, other |-> b.strm, iterator |-> b.state])

flatMap(s, f) == [op |-> "flatMap", src |-> s, f |-> f]

RECURSIVE flat(_, _)
flat(s, depth) ==
    IF depth <= 0 THEN s
    ELSE [op |-> "flat", src |-> (IF depth > 1 THEN flat(s, depth - 1) ELSE s)]

tail(s, skipCount) == [op |-> "tail", src |-> s, skipCount |-> skipCount]

\* `const set = new Set()` runs when distinct is called
distinct(s, by) == [op |-> "distinct", src |-> s, by |-> by, set |-> {}]

(***************************************************************************)
(* toArray: `result` is the array the code builds, `produced` the values   *)
(* its cursor yielded before exhaustion (kept for the claims).             *)
(***************************************************************************)
RECURSIVE toArrayLoop(_, _, _, _)
toArrayLoop(s, st, result, produced) ==
    With(NextFn(s, st), LAMBDA r :
    LET next == r.result
    IN  IF next.thrown
        THEN [threw |-> TRUE, result |-> <<>>, produced |-> produced, strm |-> r.strm]
        ELSE IF next.done
        THEN [threw |-> FALSE, result |-> result, produced |-> produced, strm |-> r.strm]
        ELSE toArrayLoop(r.strm, r.state,
                         IF next.value # Undefined THEN Append(result, next.value) ELSE result,
                         Append(produced, next.value)))

toArray(s) ==
    With(StartFn(s), LAMBDA b :
        IF b.thrown
        THEN [threw |-> TRUE, result |-> <<>>, produced |-> <<>>, strm |-> b.strm]
        ELSE toArrayLoop(b.strm, b.state, <<>>, <<>>))

(***************************************************************************)
(* reduce and reduceRight.  `calls` lists the (previousValue, currentValue) *)
(* pairs the callback was invoked with, in order of invocation (kept for   *)
(* the claims); an omitted initialValue is undefined.                      *)
(***************************************************************************)
CombFns == {"pair", "second"}
InitialValues == {Undefined, Num(0)}

\* (p, c) => PAIRS.get(p, c) (a constant array [p, c] per p and c)   and   (p, c) => c
ApplyComb(f, p, c) ==
    CASE f = "pair" -> Arr(<<"COMB", p, c>>, <<p, c>>)
      [] f = "second" -> c

RECURSIVE reduceLoop(_, _, _, _, _)
reduceLoop(s, st, f, previousValue, calls) ==
    With(NextFn(s, st), LAMBDA r :
    LET next == r.result
    IN  IF next.thrown
        THEN [threw |-> TRUE, result |-> Undefined, calls |-> calls, strm |-> r.strm]
        ELSE IF next.done
        THEN [threw |-> FALSE, result |-> previousValue, calls |-> calls, strm |-> r.strm]
        ELSE IF previousValue = Undefined
        THEN reduceLoop(r.strm, r.state, f, next.value, calls)
        ELSE reduceLoop(r.strm, r.state, f, ApplyComb(f, previousValue, next.value),
                        Append(calls, <<previousValue, next.value>>)))

reduce(s, f, initialValue) ==
    With(StartFn(s), LAMBDA b :
        IF b.thrown
        THEN [threw |-> TRUE, result |-> Undefined, calls |-> <<>>, strm |-> b.strm]
        ELSE reduceLoop(b.strm, b.state, f, initialValue, <<>>))

\* `depth` counts the invocations of recursiveReduce that are pending at the deepest point
RECURSIVE recursiveReduce(_, _, _, _)
recursiveReduce(s, st, f, initialValue) ==
    With(NextFn(s, st), LAMBDA r :
    LET next == r.result
    IN  IF next.thrown
        THEN [threw |-> TRUE, result |-> Undefined, calls |-> <<>>, strm |-> r.strm, depth |-> 1]
        ELSE IF next.done
        THEN [threw |-> FALSE, result |-> initialValue, calls |-> <<>>, strm |-> r.strm,
              depth |-> 1]
        ELSE With(recursiveReduce(r.strm, r.state, f, initialValue), LAMBDA inner :
             LET previousValue == inner.result
             IN  IF inner.threw THEN [inner EXCEPT !.depth = inner.depth + 1]
                 ELSE IF previousValue = Undefined
                 THEN [inner EXCEPT !.result = next.value, !.depth = inner.depth + 1]
                 ELSE [inner EXCEPT !.result = ApplyComb(f, previousValue, next.value),
                                    !.calls = Append(inner.calls, <<previousValue, next.value>>),
                                    !.depth = inner.depth + 1]))

reduceRight(s, f, initialValue) ==
    With(StartFn(s), LAMBDA b :
        IF b.thrown
        THEN [threw |-> TRUE, result |-> Undefined, calls |-> <<>>, strm |-> b.strm, depth |-> 0]
        ELSE recursiveReduce(b.strm, b.state, f, initialValue))

(***************************************************************************)
(* The scans find, findIndex, includes, indexOf, every, some: one loop     *)
(* each in the source, all of the shape                                    *)
(*     next = iterator.next();                                             *)
(*     while (!next.done) { if (<hit>) return <found>;                     *)
(*                          next = iterator.next(); index++ }              *)
(*     return <notFound>;                                                  *)
(* `steps` counts the next() calls, `tested` lists the elements the        *)
(* predicate was invoked on (kept for the claims).                         *)
(***************************************************************************)
PredScans == {"find", "findIndex", "every", "some"}
ValueScans == {"includes", "indexOf"}

\* the condition of the if inside the loop
ScanHit(kind, arg, fromIndex, index, value) ==
    CASE kind \in {"find", "findIndex", "some"} -> Truthy(ApplyPred(arg, value))
      [] kind = "every" -> ~Truthy(ApplyPred(arg, value))
      [] kind = "includes" -> value = arg
      [] kind = "indexOf" -> index >= fromIndex /\ value = arg

\* the value returned from inside the loop
ScanFound(kind, index, value) ==
    CASE kind = "find" -> value
      [] kind \in {"findIndex", "indexOf"} -> Num(index)
      [] kind \in {"some", "includes"} -> Bool(TRUE)
      [] kind = "every" -> Bool(FALSE)

\* the value returned after the loop
ScanNotFound(kind) ==
    CASE kind = "find" -> Undefined
      [] kind \in {"findIndex", "indexOf"} -> Num(-1)
      [] kind \in {"some", "includes"} -> Bool(FALSE)
      [] kind = "every" -> Bool(TRUE)

RECURSIVE ScanLoop(_, _, _, _, _, _, _, _)
\* a scan that advances its cursor once more after the deciding element
ScanLoopOvershoot(kind, arg, fromIndex, s, st, index, steps, tested) ==
    LET r == NextFn(s, st)
        next == r.result
        tested2 == IF kind \in PredScans THEN Append(tested, next.value) ELSE tested
    IN  IF next.thrown
        THEN [threw |-> TRUE, result |-> Undefined, steps |-> steps + 1, tested |-> tested,
              strm |-> r.strm]
        ELSE IF next.done
        THEN [threw |-> FALSE, result |-> ScanNotFound(kind), steps |-> steps + 1,
              tested |-> tested, strm |-> r.strm]
        ELSE IF ScanHit(kind, arg, fromIndex, index, next.value)
        THEN [threw |-> FALSE, result |-> ScanFound(kind, index, next.value),
              steps |-> steps + 2, tested |-> tested2, strm |-> NextFn(r.strm, r.state).strm]
        ELSE ScanLoop(kind, arg, fromIndex, r.strm, r.state, index + 1, steps + 1, tested2)

ScanLoop(kind, arg, fromIndex, s, st, index, steps, tested) ==
    With(NextFn(s, st), LAMBDA r :
    LET next == r.result
        tested2 == IF kind \in PredScans THEN Append(tested, next.value) ELSE tested
    IN  IF next.thrown
        THEN [threw |-> TRUE, result |-> Undefined, steps |-> steps + 1, tested |-> tested,
              strm |-> r.strm]
        ELSE IF next.done
        THEN [threw |-> FALSE, result |-> ScanNotFound(kind), steps |-> steps + 1,
              tested |-> tested, strm |-> r.strm]
        ELSE IF ScanHit(kind, arg, fromIndex, index, next.value)
        THEN [threw |-> FALSE, result |-> ScanFound(kind, index, next.value),
              steps |-> steps + 1, tested |-> tested2, strm |-> r.strm]
        ELSE ScanLoop(kind, arg, fromIndex, r.strm, r.state, index + 1, steps + 1, tested2))

Scan(kind, arg, fromIndex, s) ==
    With(StartFn(s), LAMBDA b :
        IF b.thrown
        THEN [threw |-> TRUE, result |-> Undefined, steps |-> 0, tested |-> <<>>, strm |-> b.strm]
        ELSE ScanLoop(kind, arg, fromIndex, b.strm, b.state, 0, 0, <<>>))

find(s, predicate) == Scan("find", predicate, 0, s)

findIndex(s, predicate) == Scan("findIndex", predicate, 0, s)

every(s, predicate) == Scan("every", predicate, 0, s)

some(s, predicate) == Scan("some", predicate, 0, s)

includes(s, searchElement) == Scan("includes", searchElement, 0, s)

indexOf(s, searchElement, fromIndex) == Scan("indexOf", searchElement, fromIndex, s)

(***************************************************************************)
(* join and toString.  Strings are TLA+ strings, \o appends.               *)
(***************************************************************************)
\* Number.prototype.toString for the numbers in use
NumberToString(n) ==
    CASE n = -1 -> "-1" [] n = 0 -> "0" [] n = 1 -> "1" [] n = 2 -> "2" [] n = 3 -> "3"
      [] n = 4 -> "4"

\* Array.prototype.toString: the elements joined by ",", undefined and null
\* as the empty string, the others by their own conversion to a string
RECURSIVE ArrayToString(_)
ArrayToString(es) ==
    IF es = <<>> THEN ""
    ELSE LET e == es[Len(es)]
             text == CASE e.t \in {"undefined", "null"} -> ""
                       [] e.t = "string" -> e.v
                       [] e.t = "number" -> NumberToString(e.v)
                       [] e.t = "boolean" -> (IF e.v THEN "true" ELSE "false")
                       [] e.t = "array" -> ArrayToString(e.v)
                       [] e.t = "object" -> "[object Object]"
         IN  IF Len(es) = 1 THEN text
             ELSE ArrayToString(SubSeq(es, 1, Len(es) - 1)) \o "," \o text

\* toString(item); reading `.toString` of null raises a TypeError
toString(item) ==
    CASE item.t = "string" -> [thrown |-> FALSE, v |-> item.v]
      [] item.t = "undefined" -> [thrown |-> FALSE, v |-> "undefined"]
      [] item.t = "null" -> [thrown |-> TRUE, v |-> ""]
      [] item.t = "number" -> [thrown |-> FALSE, v |-> NumberToString(item.v)]
      [] item.t = "boolean" -> [thrown |-> FALSE, v |-> IF item.v THEN "true" ELSE "false"]
      [] item.t = "array" -> [thrown |-> FALSE, v |-> ArrayToString(item.v)]
      [] item.t = "object" -> [thrown |-> FALSE, v |-> "[object Object]"]

\* `seps` counts the executions of `value += separator` (kept for the claims)
RECURSIVE joinLoop(_, _, _, _, _, _)
joinLoop(s, st, separator, value, addSeparator, seps) ==
    With(NextFn(s, st), LAMBDA r :
    LET result == r.result
        text == toString(result.value)
    IN  IF result.thrown
        THEN [threw |-> TRUE, result |-> Undefined, seps |-> seps, strm |-> r.strm]
        ELSE IF result.done
        THEN [threw |-> FALSE, result |-> Str(value), seps |-> seps, strm |-> r.strm]
        ELSE IF text.thrown
        THEN [threw |-> TRUE, result |-> Undefined,
              seps |-> IF addSeparator THEN seps + 1 ELSE seps, strm |-> r.strm]
        ELSE joinLoop(r.strm, r.state, separator,
                      (IF addSeparator THEN value \o separator ELSE value) \o text.v,
                      TRUE, IF addSeparator THEN seps + 1 ELSE seps))

\* an omitted separator (undefined) is ','
join(s, separator) ==
    With(StartFn(s), LAMBDA b :
    LET sep == IF separator = Undefined THEN "," ELSE separator.v
    IN  IF b.thrown
        THEN [threw |-> TRUE, result |-> Undefined, seps |-> 0, strm |-> b.strm]
        ELSE joinLoop(b.strm, b.state, sep, "", FALSE, 0))

(***************************************************************************)
(* Finding CST nodes.  A CST is a tree stream value with, for the root     *)
(* (node 0, `rootKeyword`) and each node n below it:                       *)
(*   element[n]  the AST node the CST node belongs to (node.element; the   *)
(*               root's is 0)                                              *)
(*   feature[n]  "keyword" when node.feature is the Keyword looked for,    *)
(*               "property" when it lies inside the Assignment to the      *)
(*               property looked for, "other" otherwise                    *)
(* A node with children is a composite node; streamCst(node) is the tree   *)
(* stream over node.children.                                              *)
(***************************************************************************)
Features == {"keyword", "property", "other"}

ElementOf(cst, node) == IF node.v = 0 THEN 0 ELSE cst.element[node.v]

FeatureOf(cst, node) ==
    IF node.v = 0 THEN (IF cst.rootKeyword THEN "keyword" ELSE "other")
    ELSE cst.feature[node.v]

\* Array.prototype.flatMap over the rows of a sequence of sequences
RECURSIVE Concatenated(_)
Concatenated(qs) == IF qs = <<>> THEN <<>> ELSE Head(qs) \o Concatenated(Tail(qs))

RECURSIVE findNodesForPropertyInternal(_, _, _, _)
findNodesForPropertyInternal(cst, node, element, first) ==
    IF ~first /\ FeatureOf(cst, node) = "property" THEN <<node>>
    ELSE IF children(cst.parent, node) # <<>> /\ ElementOf(cst, node) = element
    THEN LET cs == children(cst.parent, node)
         IN  Concatenated([k \in DOMAIN cs |->
                             findNodesForPropertyInternal(cst, cs[k], element, FALSE)])
    ELSE <<>>

RECURSIVE KeywordLoop(_, _, _, _, _)

\* a loop that never calls treeIterator.prune()
KeywordLoopNoPrune(cst, st, element, keywordNodes, visited) ==
    With(NextFn(cst, st), LAMBDA r :
    LET childNode == r.result.value
    IN  IF r.result.done THEN [keywordNodes |-> keywordNodes, visited |-> visited]
        ELSE KeywordLoop(cst, r.state, element,
                         IF ElementOf(cst, childNode) = element
                            /\ FeatureOf(cst, childNode) = "keyword"
                         THEN Append(keywordNodes, childNode) ELSE keywordNodes,
                         Append(visited, childNode)))

\* the do-while loop of findNodesForKeywordInternal over streamCst(node).iterator();
\* `visited` lists the nodes that treeIterator.next() returned (kept for the claims)
KeywordLoop(cst, st, element, keywordNodes, visited) ==
    With(NextFn(cst, st), LAMBDA r :
    LET childNode == r.result.value
    IN  IF r.result.done THEN [keywordNodes |-> keywordNodes, visited |-> visited]
        ELSE IF ElementOf(cst, childNode) = element
        THEN KeywordLoop(cst, r.state, element,
                         IF FeatureOf(cst, childNode) = "keyword"
                         THEN Append(keywordNodes, childNode) ELSE keywordNodes,
                         Append(visited, childNode))
        ELSE KeywordLoop(cst, [r.state EXCEPT !.pruned = TRUE], element, keywordNodes,
                         Append(visited, childNode)))

findNodesForKeywordInternal(cst, node, element) ==
    IF ElementOf(cst, node) # element THEN [keywordNodes |-> <<>>, visited |-> <<>>]
    ELSE IF FeatureOf(cst, node) = "keyword" THEN [keywordNodes |-> <<node>>, visited |-> <<>>]
    ELSE KeywordLoop(cst, StartFn(cst).state, element, <<>>, <<>>)

\* node: Undefined or the root of cst
findNodesForKeyword(cst, node) ==
    IF node = Undefined THEN [keywordNodes |-> <<>>, visited |-> <<>>]
    ELSE findNodesForKeywordInternal(cst, node, ElementOf(cst, node))

Max2(a, b) == IF a >= b THEN a ELSE b

Min2(a, b) == IF a <= b THEN a ELSE b

\* nodes[index] of a JavaScript array (0-based; undefined outside it)
At(nodes, index) == IF index + 1 \in DOMAIN nodes THEN nodes[index + 1] ELSE Undefined

\* a selection that does not raise a negative index to 0
SelectNodeNoFloor(nodes, index) ==
    IF Len(nodes) = 0 THEN Undefined
    ELSE At(nodes, IF index # Undefined THEN Min2(index.v, Len(nodes) - 1) ELSE 0)

\* `if (nodes.length === 0) ... return nodes[index]` of findNodeForProperty and
\* findNodeForKeyword
SelectNode(nodes, index) ==
    IF Len(nodes) = 0 THEN Undefined
    ELSE At(nodes, IF index # Undefined THEN Max2(0, Min2(index.v, Len(nodes) - 1)) ELSE 0)

\* node: Undefined or the root of cst; property: Undefined or the property name
findNodeForProperty(cst, node, property, index) ==
    IF node = Undefined \/ property = Undefined THEN Undefined
    ELSE SelectNode(findNodesForPropertyInternal(cst, node, ElementOf(cst, node), TRUE), index)

findNodeForKeyword(cst, node, index) ==
    IF node = Undefined THEN Undefined
    ELSE SelectNode(findNodesForKeywordInternal(cst, node, ElementOf(cst, node)).keywordNodes,
                    index)

(***************************************************************************)
(* findNameAssignment.  A grammar is a sequence of types; type t has       *)
(*   kind      "ParserRule" (the type is inferred from that rule) or       *)
(*             "Interface" (a declared type)                               *)
(*   contents  what streamAllContents(type) yields, in order: Assignments  *)
(*             to `name` ("name"), RuleCalls of a parser rule ("call",     *)
(*             `assigned` when inside an Assignment), AtomTypes with a     *)
(*             refType ("atom") and anything else ("other")                *)
(* An Assignment is identified by its type and its position in `contents`. *)
(***************************************************************************)
NoGrammar == <<>>

NoServer == <<>>

MaxTypes == 2
MaxContents == 2

Assignment(type, pos) == [t |-> "Assignment", type |-> type, pos |-> pos]

\* the node kinds, for a grammar of n types
NodeKinds(n) ==
    {[k |-> "name", ref |-> 0, assigned |-> FALSE], [k |-> "other", ref |-> 0, assigned |-> FALSE]}
    \cup {[k |-> "call", ref |-> t, assigned |-> a] : t \in 1..n, a \in BOOLEAN}
    \cup {[k |-> "atom", ref |-> t, assigned |-> FALSE] : t \in 1..n}

\* ast.isRuleCall(node) && ast.isParserRule(node.rule.ref)
IsParserRuleCall(g, node) == node.k = "call" /\ g[node.ref].kind = "ParserRule"

\* the position in contents, from `from` on, of the first node one of the
\* three branches of the for loop takes; 0 when there is none
RECURSIVE FirstBranch(_, _, _)
FirstBranch(g, contents, from) ==
    IF from > Len(contents) THEN 0
    ELSE IF contents[from].k \in {"name", "atom"} \/ IsParserRuleCall(g, contents[from])
    THEN from
    ELSE FirstBranch(g, contents, from + 1)

\* returns the result, the cache and the types whose contents were searched
\* (`entered`, in order; kept for the claims)
RECURSIVE findNameAssignmentInternal(_, _, _, _)

\* a search that records a type in the cache only once its result is known;
\* it is cut off when more types have been entered than the grammar has
findNameAssignmentInternalLate(g, type, cashed, entered) ==
    IF type \in DOMAIN cashed \/ Len(entered) > Len(g)
    THEN [result |-> IF type \in DOMAIN cashed THEN cashed[type] ELSE Undefined,
          cashed |-> cashed, entered |-> entered]
    ELSE LET entered1 == Append(entered, type)
             pos == FirstBranch(g, g[type].contents, 1)
             node == g[type].contents[pos]
             Cashed(c, v) == [x \in DOMAIN c \cup {type} |-> IF x = type THEN v ELSE c[x]]
         IN  IF pos = 0 \/ (node.k # "name" /\ node.assigned)
             THEN [result |-> Undefined, cashed |-> Cashed(cashed, Undefined),
                   entered |-> entered1]
             ELSE IF node.k = "name"
             THEN [result |-> Assignment(type, pos),
                   cashed |-> Cashed(cashed, Assignment(type, pos)), entered |-> entered1]
             ELSE LET child == findNameAssignmentInternal(g, node.ref, cashed, entered1)
                  IN  [child EXCEPT !.cashed = Cashed(child.cashed, child.result)]

findNameAssignmentInternal(g, type, cashed, entered) ==
    IF type \in DOMAIN cashed
    THEN [result |-> cashed[type], cashed |-> cashed, entered |-> entered]
    ELSE LET cashed1 == [x \in DOMAIN cashed \cup {type} |->
                            IF x = type THEN Undefined ELSE cashed[x]]
             entered1 == Append(entered, type)
             pos == FirstBranch(g, g[type].contents, 1)
             node == g[type].contents[pos]
         IN  IF pos = 0
             THEN [result |-> Undefined, cashed |-> cashed1, entered |-> entered1]
             ELSE IF node.k = "name"
             THEN [result |-> Assignment(type, pos),
                   cashed |-> [cashed1 EXCEPT ![type] = Assignment(type, pos)],
                   entered |-> entered1]
             ELSE \* go(node, refType)
                  IF node.assigned
                  THEN [result |-> Undefined, cashed |-> cashed1, entered |-> entered1]
                  ELSE LET child == findNameAssignmentInternal(g, node.ref, cashed1, entered1)
                       IN  [child EXCEPT !.cashed = [child.cashed EXCEPT ![type] = child.result]]

\* type: [inferred, type]; an InferredType is replaced by its $container rule
findNameAssignment(g, type) ==
    findNameAssignmentInternal(g, type.type, <<>>, <<>>)

(***************************************************************************)
(* State machine                                                           *)
(*   strm     the stream value under consideration                         *)
(*   fresh    that stream value as it was when it was built                *)
(*   cursors  the cursors obtained from it by iterator(), with a record of *)
(*            what each has returned                                       *)
(*   arrays   the outcomes of the toArray() calls made on it               *)
(*   results  the outcomes of the other consuming calls (reduce, find, ...) *)
(*            and of the stream() calls                                    *)
(*   grammar  the grammar findNameAssignment is called on (NoGrammar where *)
(*            there is none)                                               *)
(*   server   the language server: its open documents, the calls it has    *)
(*            made to its services and the responses it has sent           *)
(*            (NoServer where there is none)                               *)
(***************************************************************************)
Others ==
    {s \in Sources : IF s.op = "array" THEN Len(s.elems) <= MaxOther
                                       ELSE Len(s.parent) <= MaxOther}

Init ==
    /\ strm \in Sources
    /\ fresh = strm
    /\ cursors = <<>>
    /\ arrays = <<>>
    /\ results = <<>>
    /\ grammar = NoGrammar
    /\ server = NoServer

Building ==
    /\ cursors = <<>>
    /\ arrays = <<>>
    /\ results = <<>>
    /\ strm = fresh
    /\ ChainLen(strm) < MaxChain

Built(s) ==
    /\ strm' = s
    /\ fresh' = s
    /\ UNCHANGED <<cursors, arrays, results, grammar, server>>

CallMap == Building /\ \E f \in MapFns : Built(map(strm, f))

CallFilter == Building /\ \E p \in Preds : Built(filter(strm, p))

CallConcat == Building /\ \E other \in Others : Built(concat(strm, other))

CallFlatMap == Building /\ \E f \in FlatFns : Built(flatMap(strm, f))

CallFlat == Building /\ \E depth \in 0..MaxDepth : Built(flat(strm, depth))

CallTail == Building /\ \E skipCount \in 0..MaxLen : Built(tail(strm, skipCount))

CallDistinct == Building /\ \E by \in KeyFns : Built(distinct(strm, by))

\* iterator(): a new cursor over strm
CallIterator ==
    /\ Len(cursors) < MaxCursors
    /\ \E b \in {StartFn(strm)} :
           /\ strm' = b.strm
           /\ cursors' = IF b.thrown THEN cursors
                         ELSE Append(cursors,
                                [state |-> b.state, out |-> <<>>, calls |-> 0,
                                 lastDone |-> FALSE, lastValue |-> FALSE, threw |-> FALSE,
                                 pruned |-> {}, misuse |-> FALSE, log |-> b.log])
    /\ UNCHANGED <<fresh, arrays, results, grammar, server>>

\* one call of next() on cursor i
CallNext(i) ==
    /\ cursors[i].calls < MaxCalls
    /\ \E r \in {NextFn(strm, cursors[i].state)} :
       LET c == cursors[i]
           isValue == ~r.result.thrown /\ ~r.result.done
       IN  /\ strm' = r.strm
           /\ cursors' = [cursors EXCEPT ![i] =
                [c EXCEPT !.state = r.state,
                          !.out = IF isValue THEN Append(c.out, r.result.value) ELSE c.out,
                          !.calls = c.calls + 1,
                          !.lastDone = r.result.done,
                          !.lastValue = isValue,
                          !.threw = c.threw \/ r.result.thrown,
                          !.log = c.log \o r.log]]
    /\ UNCHANGED <<fresh, arrays, results, grammar, server>>

\* prune() on cursor i; only the cursors of a TreeStreamImpl have it
CallPrune(i) ==
    /\ strm.op = "tree"
    /\ LET c == cursors[i]
       IN  cursors' = [cursors EXCEPT ![i] =
                [c EXCEPT !.state = [c.state EXCEPT !.pruned = TRUE],
                          !.lastValue = FALSE,
                          !.pruned = IF c.lastValue THEN c.pruned \cup {c.out[Len(c.out)]}
                                     ELSE c.pruned,
                          !.misuse = c.misuse \/ ~c.lastValue]]
    /\ UNCHANGED <<strm, fresh, arrays, results, grammar, server>>

CallToArray ==
    /\ Len(arrays) < MaxToArray
    /\ \E a \in {toArray(strm)} :
           /\ strm' = a.strm
           /\ arrays' = Append(arrays,
                [on |-> strm, threw |-> a.threw, result |-> a.result, produced |-> a.produced])
    /\ UNCHANGED <<fresh, cursors, results, grammar, server>>

NextOnCursor == \E i \in DOMAIN cursors : CallNext(i)

PruneOnCursor == \E i \in DOMAIN cursors : CallPrune(i)

Next ==
    \/ CallMap
    \/ CallFilter
    \/ CallConcat
    \/ CallFlatMap
    \/ CallFlat
    \/ CallTail
    \/ CallDistinct
    \/ CallIterator
    \/ NextOnCursor
    \/ PruneOnCursor
    \/ CallToArray

Spec == Init /\ [][Next]_vars

(***************************************************************************)
(* The consuming calls other than toArray(), each made on the stream as a  *)
(* whole.  An entry of `results` keeps the stream the call was made on     *)
(* (`on`), the arguments and the outcome (`out`).                          *)
(***************************************************************************)
Consuming == Len(results) < MaxOps /\ cursors = <<>> /\ arrays = <<>>

Consumed(op, arg, arg2, out) ==
    /\ \E o \in {out} :
          /\ results' = Append(results, [op |-> op, on |-> strm, arg |-> arg, arg2 |-> arg2,
                                         out |-> [x \in DOMAIN o \ {"strm"} |-> o[x]]])
          /\ strm' = o.strm
    /\ UNCHANGED <<fresh, cursors, arrays, grammar, server>>

CallReduce ==
    /\ Consuming
    /\ \E f \in CombFns, initialValue \in InitialValues :
          Consumed("reduce", f, initialValue, reduce(strm, f, initialValue))

CallReduceRight ==
    /\ Consuming
    /\ \E f \in CombFns, initialValue \in InitialValues :
          Consumed("reduceRight", f, initialValue, reduceRight(strm, f, initialValue))

CallFind ==
    /\ Consuming
    /\ \E predicate \in Preds : Consumed("find", predicate, 0, find(strm, predicate))

CallFindIndex ==
    /\ Consuming
    /\ \E predicate \in Preds : Consumed("findIndex", predicate, 0, findIndex(strm, predicate))

CallEvery ==
    /\ Consuming
    /\ \E predicate \in Preds : Consumed("every", predicate, 0, every(strm, predicate))

CallSome ==
    /\ Consuming
    /\ \E predicate \in Preds : Consumed("some", predicate, 0, some(strm, predicate))

CallIncludes ==
    /\ Consuming
    /\ \E searchElement \in Elems :
          Consumed("includes", searchElement, 0, includes(strm, searchElement))

CallIndexOf ==
    /\ Consuming
    /\ \E searchElement \in Elems, fromIndex \in 0..MaxLen :
          Consumed("indexOf", searchElement, fromIndex, indexOf(strm, searchElement, fromIndex))

\* the values handed to stream(): the stream itself, arrays, array-like
\* objects, an object without length, one with a length that is no number,
\* a number, null and undefined
Collections ==
    {[t |-> "stream", v |-> strm]}
    \cup {Arr(<<"IN">>, a) : a \in Arrays}
    \cup {Obj(Num(Len(a)), a) : a \in Arrays}
    \cup {Obj(Undefined, <<>>), Obj(Str("2"), <<Num(1), Num(2)>>), Num(1), Null, Undefined}

CallStream ==
    /\ Consuming
    /\ \E collection \in Collections :
          \E out \in {stream(collection)} :
              results' = Append(results, [op |-> "stream", on |-> strm, arg |-> collection,
                                         arg2 |-> 0,
                                         out |-> [threw |-> out.thrown, result |-> out.strm]])
    /\ UNCHANGED <<strm, fresh, cursors, arrays, grammar, server>>

(***************************************************************************)
(* Chains of two: a combinator that skips elements around a concat stream. *)
(***************************************************************************)
BuildingOnConcat ==
    /\ cursors = <<>>
    /\ arrays = <<>>
    /\ results = <<>>
    /\ strm = fresh
    /\ strm.op = "concat"

FilterConcat == BuildingOnConcat /\ \E p \in Preds : Built(filter(strm, p))

TailConcat == BuildingOnConcat /\ Built(tail(strm, 1))

DistinctConcat == BuildingOnConcat /\ Built(distinct(strm, "noBy"))

NextWrap ==
    \/ CallConcat
    \/ FilterConcat
    \/ TailConcat
    \/ DistinctConcat
    \/ CallIterator
    \/ NextOnCursor
    \/ CallToArray

SpecWrap == Init /\ [][NextWrap]_vars

(***************************************************************************)
(* join, on arrays of every kind of element toString distinguishes.        *)
(***************************************************************************)
JoinElems == {Undefined, Null, Num(1), Str("a"), PAIR}

\* [3, 1, 2, 3]
EXAMPLE == <<Num(3), Num(1), Num(2), Num(3)>>

InitJoin ==
    /\ strm \in {[op |-> "array", elems |-> a] : a \in SeqsUpTo(JoinElems, MaxLen) \cup {EXAMPLE}}
    /\ fresh = strm
    /\ cursors = <<>>
    /\ arrays = <<>>
    /\ results = <<>>
    /\ grammar = NoGrammar
    /\ server = NoServer

CallJoin ==
    /\ Consuming
    /\ \E separator \in {Undefined, Str("-")} :
          Consumed("join", separator, 0, join(strm, separator))

NextJoin ==
    \/ CallJoin
    \/ CallIndexOf

SpecJoin == InitJoin /\ [][NextJoin]_vars

(***************************************************************************)
(* Finding CST nodes: every CST of up to MaxNodes nodes below the root.    *)
(***************************************************************************)
Csts ==
    {[op |-> "tree", root |-> Num(0), parent |-> p, element |-> e, feature |-> f,
      rootKeyword |-> k] :
        p \in Trees, e \in SeqsUpTo(0..1, MaxNodes), f \in SeqsUpTo(Features, MaxNodes),
        k \in BOOLEAN}

InitCst ==
    /\ strm \in {c \in Csts : Len(c.element) = Len(c.parent) /\ Len(c.feature) = Len(c.parent)}
    /\ fresh = strm
    /\ cursors = <<>>
    /\ arrays = <<>>
    /\ results = <<>>
    /\ grammar = NoGrammar
    /\ server = NoServer

\* the index argument: omitted, or a number
Indexes == {Undefined} \cup {Num(i) : i \in -1..MaxNodes}

Found(op, node, property, index, result) ==
    /\ results' = Append(results, [op |-> op, on |-> strm, node |-> node, property |-> property,
                                   index |-> index, out |-> [threw |-> FALSE, result |-> result]])
    /\ UNCHANGED <<strm, fresh, cursors, arrays, grammar, server>>

CallFindNodeForProperty ==
    /\ Consuming
    /\ \E node \in {Undefined, Num(0)}, property \in {Undefined, Str("p")}, index \in Indexes :
          Found("findNodeForProperty", node, property, index,
                findNodeForProperty(strm, node, property, index))

CallFindNodeForKeyword ==
    /\ Consuming
    /\ \E node \in {Undefined, Num(0)}, index \in Indexes :
          Found("findNodeForKeyword", node, Undefined, index,
                findNodeForKeyword(strm, node, index))

CallFindNodesForKeyword ==
    /\ Consuming
    /\ \E node \in {Undefined, Num(0)} : \E found \in {findNodesForKeyword(strm, node)} :
          /\ results' = Append(results,
                [op |-> "findNodesForKeyword", on |-> strm, node |-> node,
                 out |-> [threw |-> FALSE, result |-> found.keywordNodes,
                          visited |-> found.visited]])
          /\ UNCHANGED <<strm, fresh, cursors, arrays, grammar, server>>

NextCst ==
    \/ CallFindNodeForProperty
    \/ CallFindNodeForKeyword
    \/ CallFindNodesForKeyword

SpecCst == InitCst /\ [][NextCst]_vars

(***************************************************************************)
(* findNameAssignment on every grammar of up to MaxTypes types with up to  *)
(* MaxContents nodes each.                                                 *)
(***************************************************************************)
\* a parser rule holds assignments and rule calls, a declared type holds atom types
TypesOf(n) ==
    {[kind |-> "ParserRule", contents |-> c] :
        c \in SeqsUpTo({x \in NodeKinds(n) : x.k # "atom"}, MaxContents)}
    \cup {[kind |-> "Interface", contents |-> c] :
        c \in SeqsUpTo({x \in NodeKinds(n) : x.k \in {"atom", "other"}}, MaxContents)}

Grammars == UNION {[1..n -> TypesOf(n)] : n \in 1..MaxTypes}

InitGrammar ==
    /\ grammar \in Grammars
    /\ server = NoServer
    /\ strm = EMPTY_STREAM
    /\ fresh = strm
    /\ cursors = <<>>
    /\ arrays = <<>>
    /\ results = <<>>

\* the argument is a type of the grammar, or the InferredType of a parser rule
CallFindNameAssignment ==
    /\ Consuming
    /\ \E type \in DOMAIN grammar, inferred \in BOOLEAN :
          /\ inferred => grammar[type].kind = "ParserRule"
          /\ results' = Append(results,
                [op |-> "findNameAssignment", type |-> type, inferred |-> inferred,
                 out |-> [threw |-> FALSE] @@
                         findNameAssignment(grammar, [inferred |-> inferred, type |-> type])])
    /\ UNCHANGED <<strm, fresh, cursors, arrays, grammar, server>>

NextGrammar == CallFindNameAssignment

SpecGrammar == InitGrammar /\ [][NextGrammar]_vars

NextOps ==
    \/ CallMap
    \/ CallFilter
    \/ CallConcat
    \/ CallFlatMap
    \/ CallFlat
    \/ CallTail
    \/ CallDistinct
    \/ CallReduce
    \/ CallReduceRight
    \/ CallFind
    \/ CallFindIndex
    \/ CallEvery
    \/ CallSome
    \/ CallIncludes
    \/ CallIndexOf
    \/ CallStream

SpecOps == Init /\ [][NextOps]_vars

(***************************************************************************)
(* Language server (language-server.ts)                                    *)
(*   server.documents  TextDocuments: the open document of each uri, or    *)
(*                     NoDocument                                          *)
(*   server.calls      the calls made to the services (parser, scope       *)
(*                     computation, providers, document builder), in order *)
(*   server.responses  the responses sent, in order                        *)
(*   server.changes    the number of content changes received              *)
(* The services are not part of these sources: a provider's result is      *)
(* recorded as the call it answers, the parser's and the scope             *)
(* computation's result as a value determined by the text, and the         *)
(* document builder leaves or renews each of the document's two fields.    *)
(* Documents have one line of one character.                               *)
(***************************************************************************)
MaxRequests == 2
MaxChanges == 2

Uris == {"a", "b"}
Texts == {"x", "y"}
Positions == {[line |-> 0, character |-> c] : c \in 0..1}

\* TextDocuments.get(uri) of a uri that has no document
NoDocument == Undefined

\* services.Parser.parse(text)
parse(text) == [value |-> [root |-> text, document |-> Undefined]]

\* services.references.ScopeComputation.computeScope(rootNode)
computeScope(rootNode) == [scopesOf |-> rootNode.root]

\* document.offsetAt(position)
offsetAt(document, position) == position.character

\* CompletionList.create()
CompletionListCreate == [isIncomplete |-> FALSE, items |-> <<>>]

Called(sv, service, args) ==
    [sv EXCEPT !.calls = Append(@, [service |-> service, args |-> args])]

Provided(service, args) == [providedBy |-> service, args |-> args]

Respond(sv, handler, uri, found, result) ==
    [sv EXCEPT !.responses =
        Append(@, [handler |-> handler, uri |-> uri, found |-> found,
                   result |-> result])]

assembleRootKeepScopes(sv, uri) ==
    LET text == sv.documents[uri].text
        rootNode == [parse(text).value EXCEPT !.document = uri]
        parsed == Called(sv, "Parser.parse", text)
        scoped == Called(parsed, "ScopeComputation.computeScope", rootNode)
    IN  [rootNode |-> rootNode,
         server |-> [scoped EXCEPT !.documents[uri] =
                        [@ EXCEPT !.parseResult = [value |-> rootNode]]]]

assembleRoot(sv, uri) ==
    LET text == sv.documents[uri].text
        rootNode == [parse(text).value EXCEPT !.document = uri]
        parsed == Called(sv, "Parser.parse", text)
        scoped == Called(parsed, "ScopeComputation.computeScope", rootNode)
    IN  [rootNode |-> rootNode,
         server |-> [scoped EXCEPT !.documents[uri] =
                        [@ EXCEPT !.parseResult = [value |-> rootNode],
                                  !.precomputedScopes = computeScope(rootNode)]]]

InitServer ==
    /\ strm = EMPTY_STREAM
    /\ fresh = strm
    /\ cursors = <<>>
    /\ arrays = <<>>
    /\ results = <<>>
    /\ grammar = NoGrammar
    /\ server = [documents |-> [uri \in Uris |-> NoDocument],
                 calls |-> <<>>, responses |-> <<>>, changes |-> 0]

Serving == Len(server.responses) < MaxRequests

\* documents.onDidChangeContent: a document was opened or its text changed
DidChangeContent ==
    /\ server.changes < MaxChanges
    /\ \E uri \in Uris, text \in Texts, parsed, scoped \in BOOLEAN :
          LET old == server.documents[uri]
              rootNode == [parse(text).value EXCEPT !.document = uri]
              document ==
                  [uri |-> uri, text |-> text,
                   parseResult |->
                       IF parsed THEN [value |-> rootNode]
                       ELSE IF old = NoDocument THEN Undefined
                       ELSE old.parseResult,
                   precomputedScopes |->
                       IF scoped THEN computeScope(rootNode)
                       ELSE IF old = NoDocument THEN Undefined
                       ELSE old.precomputedScopes]
          IN  server' = [Called(server, "DocumentBuilder.build", uri)
                            EXCEPT !.documents[uri] = document,
                                   !.changes = @ + 1]
    /\ UNCHANGED <<strm, fresh, cursors, arrays, results, grammar>>

\* documents.listen: a document was closed
DidClose ==
    /\ \E uri \in Uris :
          /\ server.documents[uri] # NoDocument
          /\ server' = [server EXCEPT !.documents[uri] = NoDocument]
    /\ UNCHANGED <<strm, fresh, cursors, arrays, results, grammar>>

OnCompletion ==
    /\ Serving
    /\ \E uri \in Uris, position \in Positions :
          LET document == server.documents[uri] IN
          IF document # NoDocument
          THEN \E a \in {assembleRoot(server, uri)} :
                  LET args == <<a.rootNode, offsetAt(document, position)>> IN
                  server' = Respond(
                      Called(a.server, "CompletionProvider.getCompletion", args),
                      "completion", uri, TRUE,
                      Provided("CompletionProvider.getCompletion", args))
          ELSE server' =
                  Respond(server, "completion", uri, FALSE, CompletionListCreate)
    /\ UNCHANGED <<strm, fresh, cursors, arrays, results, grammar>>

OnReferences ==
    /\ Serving
    /\ \E uri \in Uris, position \in Positions, includeDeclaration \in BOOLEAN :
          LET document == server.documents[uri]
              args == <<uri, position, includeDeclaration>>
          IN
          IF document # NoDocument
          THEN server' = Respond(
                  Called(server, "ReferenceFinder.findReferenceLocations", args),
                  "references", uri, TRUE,
                  Provided("ReferenceFinder.findReferenceLocations", args))
          ELSE server' = Respond(server, "references", uri, FALSE, <<>>)
    /\ UNCHANGED <<strm, fresh, cursors, arrays, results, grammar>>

OnDocumentSymbol ==
    /\ Serving
    /\ \E uri \in Uris :
          LET document == server.documents[uri]
              args == <<uri>>
          IN
          IF document # NoDocument
          THEN server' = Respond(
                  Called(server, "DocumentSymbolProvider.getSymbols", args),
                  "documentSymbol", uri, TRUE,
                  Provided("DocumentSymbolProvider.getSymbols", args))
          ELSE server' = Respond(server, "documentSymbol", uri, FALSE, <<>>)
    /\ UNCHANGED <<strm, fresh, cursors, arrays, results, grammar>>

OnDeclaration ==
    /\ Serving
    /\ \E uri \in Uris, position \in Positions :
          LET document == server.documents[uri] IN
          IF document # NoDocument
          THEN \E a \in {assembleRoot(server, uri)} :
                  LET args == <<uri, a.rootNode, offsetAt(document, position)>> IN
                  server' = Respond(
                      Called(a.server, "GoToDeclaration.findDeclaration", args),
                      "declaration", uri, TRUE,
                      Provided("GoToDeclaration.findDeclaration", args))
          ELSE server' = Respond(server, "declaration", uri, FALSE, <<>>)
    /\ UNCHANGED <<strm, fresh, cursors, arrays, results, grammar>>

NextServer ==
    \/ DidChangeContent
    \/ DidClose
    \/ OnCompletion
    \/ OnReferences
    \/ OnDocumentSymbol
    \/ OnDeclaration

SpecServer == InitServer /\ [][NextServer]_vars

(***************************************************************************)
(* Definitions used to state the claims                                    *)
(***************************************************************************)
IsPrefix(a, b) == Len(a) <= Len(b) /\ SubSeq(b, 1, Len(a)) = a

\* the values a cursor yields when it is the only one ever stepped on s
RECURSIVE AloneLoop(_, _, _)
AloneLoop(s, st, acc) ==
    LET r == NextFn(s, st)
    IN  IF r.result.done THEN acc
        ELSE AloneLoop(r.strm, r.state,
                       IF r.result.thrown THEN acc ELSE Append(acc, r.result.value))

Alone(s) ==
    LET b == StartFn(s)
    IN  IF b.thrown THEN <<>> ELSE AloneLoop(b.strm, b.state, <<>>)

\* cursors on which prune() was never called
Unpruned(c) == c.pruned = {} /\ ~c.misuse

Range(q) == {q[k] : k \in DOMAIN q}

Pos(q, e) == CHOOSE k \in DOMAIN q : q[k] = e

RECURSIVE Ancestors(_, _)
Ancestors(parent, n) ==
    IF n = 0 THEN {}
    ELSE {parent[n]} \cup Ancestors(parent, parent[n])

\* q lists every node below the root once, parents first, and the whole
\* subtree of a left sibling before the right sibling
IsPreOrder(parent, q) ==
    LET nodes == DOMAIN parent
    IN  /\ Len(q) = Len(parent)
        /\ Range(q) = {Num(n) : n \in nodes}
        /\ \A n \in nodes : parent[n] # 0 => Pos(q, Num(parent[n])) < Pos(q, Num(n))
        /\ \A a, b \in nodes :
              (a < b /\ parent[a] = parent[b]) =>
                 \A d \in nodes :
                    (d = a \/ a \in Ancestors(parent, d)) => Pos(q, Num(d)) < Pos(q, Num(b))

RECURSIVE PreOrderOf(_, _)
RECURSIVE PreOrderList(_, _)
PreOrderOf(parent, node) == PreOrderList(parent, children(parent, node))
PreOrderList(parent, q) ==
    IF q = <<>> THEN <<>>
    ELSE <<Head(q)>> \o PreOrderOf(parent, Head(q)) \o PreOrderList(parent, Tail(q))

\* the pre-order sequence without the proper descendants of the nodes in P
PrunedPreOrder(parent, P) ==
    LET Kept(node) == \A a \in Ancestors(parent, node.v) : Num(a) \notin P
    IN  SelectSeq(PreOrderOf(parent, Num(0)), Kept)

\* the first occurrence of every key of q, in the order of q
RECURSIVE FirstOccurrences(_, _, _)
FirstOccurrences(q, by, seen) ==
    IF q = <<>> THEN <<>>
    ELSE LET key == ApplyKey(by, Head(q))
         IN  IF key \in seen THEN FirstOccurrences(Tail(q), by, seen)
             ELSE <<Head(q)>> \o FirstOccurrences(Tail(q), by, seen \cup {key})

(***************************************************************************)
(* C1  Cursor independence: every cursor over a stream value, whatever the *)
(* interleaving with other cursors, yields exactly what a cursor stepped   *)
(* alone yields.                                                           *)
(***************************************************************************)
C1_CursorIndependence ==
    \A i \in DOMAIN cursors :
        Unpruned(cursors[i]) =>
            /\ IsPrefix(cursors[i].out, Alone(fresh))
            /\ cursors[i].lastDone => cursors[i].out = Alone(fresh)

(***************************************************************************)
(* C2  Stable termination: once next() has returned done on a cursor,      *)
(* every later next() on that cursor returns done as well.                 *)
(***************************************************************************)
C2_StableTermination ==
    [][\A i \in DOMAIN cursors : cursors[i].lastDone => cursors'[i].lastDone]_vars

C2_Witness ==
    \E i \in DOMAIN cursors :
        /\ cursors[i].lastDone
        /\ ~cursors[i].threw
        /\ Len(cursors[i].out) >= 1
        /\ cursors[i].calls >= Len(cursors[i].out) + 2

(***************************************************************************)
(* C3  Without prune(), draining a tree cursor yields every proper         *)
(* descendant of the root exactly once, never the root, in pre-order.      *)
(***************************************************************************)
C3_PreOrder ==
    strm.op = "tree" =>
        /\ \A i \in DOMAIN cursors :
              (Unpruned(cursors[i]) /\ cursors[i].lastDone) =>
                  IsPreOrder(strm.parent, cursors[i].out)
        /\ \A k \in DOMAIN arrays : IsPreOrder(strm.parent, arrays[k].produced)

C3_Witness ==
    /\ strm.op = "tree"
    /\ strm.parent = <<0, 0, 1>>
    /\ \E i \in DOMAIN cursors :
          /\ Unpruned(cursors[i])
          /\ cursors[i].lastDone
          /\ cursors[i].out = <<Num(1), Num(3), Num(2)>>

(***************************************************************************)
(* C4  With prune() called once right after the steps that produced the    *)
(* nodes of P, the cursor yields the pre-order sequence without the proper *)
(* descendants of the nodes of P, and nothing else is removed or moved.    *)
(***************************************************************************)
C4_Prune ==
    strm.op = "tree" =>
        \A i \in DOMAIN cursors :
            ~cursors[i].misuse =>
                LET expected == PrunedPreOrder(strm.parent, cursors[i].pruned)
                IN  /\ IsPrefix(cursors[i].out, expected)
                    /\ cursors[i].lastDone => cursors[i].out = expected

C4_Witness ==
    /\ strm.op = "tree"
    /\ strm.parent = <<0, 0, 1>>
    /\ \E i \in DOMAIN cursors :
          /\ ~cursors[i].misuse
          /\ cursors[i].pruned = {Num(1)}
          /\ cursors[i].lastDone
          /\ cursors[i].out = <<Num(1), Num(2)>>

(***************************************************************************)
(* C5  Every toArray() call on S.concat(T) returns S.toArray() followed by *)
(* T.toArray().                                                            *)
(***************************************************************************)
C5_ConcatToArray ==
    \A k \in DOMAIN arrays :
        (arrays[k].on.op = "concat" /\ ~arrays[k].threw) =>
            arrays[k].result =
                toArray(arrays[k].on.src).result \o toArray(arrays[k].on.other).result

(***************************************************************************)
(* C6  S.map(f).toArray() has the length of S.toArray() and its i-th entry *)
(* is f of the i-th entry of S.toArray().                                  *)
(***************************************************************************)
C6_MapToArray ==
    \A k \in DOMAIN arrays :
        (arrays[k].on.op = "map" /\ ~arrays[k].threw) =>
            LET sa == toArray(arrays[k].on.src).result
            IN  /\ Len(arrays[k].result) = Len(sa)
                /\ \A j \in DOMAIN sa : arrays[k].result[j] = ApplyMap(arrays[k].on.f, sa[j])

(***************************************************************************)
(* C7  toArray() returns exactly the values its cursor produced before     *)
(* exhaustion: same count, same order.                                     *)
(***************************************************************************)
C7_ToArrayComplete ==
    \A k \in DOMAIN arrays :
        ~arrays[k].threw => arrays[k].result = arrays[k].produced

(***************************************************************************)
(* C8  S.filter(p).toArray() is the subsequence of S.toArray() of the      *)
(* elements for which p is truthy, in their original order.                *)
(***************************************************************************)
C8_FilterToArray ==
    \A k \in DOMAIN arrays :
        arrays[k].on.op = "filter" =>
            LET Keep(e) == Truthy(ApplyPred(arrays[k].on.p, e))
                sa == toArray(arrays[k].on.src)
            IN  /\ arrays[k].threw = sa.threw
                /\ arrays[k].result = SelectSeq(sa.result, Keep)

C8_Witness ==
    \E k \in DOMAIN arrays :
        /\ arrays[k].on.op = "filter"
        /\ arrays[k].on.src.op = "array"
        /\ Len(arrays[k].result) = 1
        /\ Len(toArray(arrays[k].on.src).result) = 2

(***************************************************************************)
(* C9  Every iteration session of one S.distinct(by) value yields the      *)
(* first occurrence of each key of S, whatever other sessions consumed.    *)
(***************************************************************************)
C9_DistinctPerCursor ==
    strm.op = "distinct" =>
        \A i \in DOMAIN cursors :
            LET expected == FirstOccurrences(Alone(fresh.src), strm.by, {})
            IN  /\ IsPrefix(cursors[i].out, expected)
                /\ cursors[i].lastDone => cursors[i].out = expected

(***************************************************************************)
(* C10  S.distinct(by).toArray() holds one element per key occurring in S, *)
(* the first occurrence of that key, in the order of S.                    *)
(***************************************************************************)
C10_DistinctToArray ==
    \A k \in DOMAIN arrays :
        (arrays[k].on.op = "distinct" /\ ~arrays[k].threw) =>
            LET S == Alone(fresh.src)
                by == arrays[k].on.by
                res == arrays[k].result
            IN  /\ \A a, b \in DOMAIN res : ApplyKey(by, res[a]) = ApplyKey(by, res[b]) => a = b
                /\ {ApplyKey(by, e) : e \in Range(res)} = {ApplyKey(by, e) : e \in Range(S)}
                /\ res = FirstOccurrences(S, by, {})

(***************************************************************************)
(* reduce / reduceRight                                                    *)
(***************************************************************************)
\* the left fold of q from acc: the calls of the callback, and the result
RECURSIVE FoldCalls(_, _, _)
FoldCalls(f, acc, q) ==
    IF q = <<>> THEN <<>>
    ELSE <<<<acc, Head(q)>>>> \o FoldCalls(f, ApplyComb(f, acc, Head(q)), Tail(q))

RECURSIVE FoldResult(_, _, _)
FoldResult(f, acc, q) ==
    IF q = <<>> THEN acc
    ELSE FoldResult(f, ApplyComb(f, acc, Head(q)), Tail(q))

Reverse(q) == [k \in 1..Len(q) |-> q[Len(q) + 1 - k]]

\* the entries of results made by a call of `op` that returned
Returned(op) == {k \in DOMAIN results : results[k].op = op /\ ~results[k].out.threw}

\* C11: reduce(combine, initial) with an initial value is the left fold of the
\* stream's elements from initial: combine is called once per element, in
\* order, each time with the previous call's result, and the last result is
\* returned -- also when combine returns undefined at some step.
C11_ReduceLeftFold ==
    \A k \in Returned("reduce") :
        LET r == results[k]
            q == Alone(r.on)
        IN  r.arg2 # Undefined =>
               /\ r.out.calls = FoldCalls(r.arg, r.arg2, q)
               /\ r.out.result = FoldResult(r.arg, r.arg2, q)

\* C12: reduce(combine) without an initial value returns undefined on an empty
\* stream without calling combine, and otherwise seeds the accumulator with the
\* first element and folds the remaining elements left to right;
\* reduce(combine, 0) on an empty stream returns 0.
C12_ReduceNoInitial ==
    \A k \in Returned("reduce") :
        LET r == results[k]
            q == Alone(r.on)
        IN  /\ (r.arg2 = Undefined /\ q = <<>>) =>
                  r.out.result = Undefined /\ r.out.calls = <<>>
            /\ (r.arg2 = Undefined /\ q # <<>>) =>
                  /\ r.out.calls = FoldCalls(r.arg, Head(q), Tail(q))
                  /\ r.out.result = FoldResult(r.arg, Head(q), Tail(q))
            /\ (r.arg2 = Num(0) /\ q = <<>>) => r.out.result = Num(0)

\* S.reduceRight(combine, initial) returns what reverse(S).reduce(combine, initial) returns
ReduceRightAsReversedReduce ==
    \A k \in Returned("reduceRight") :
        LET r == results[k]
            reversed == [op |-> "array", elems |-> Reverse(Alone(r.on))]
        IN  /\ r.out.result = reduce(reversed, r.arg, r.arg2).result
            /\ r.out.calls = reduce(reversed, r.arg, r.arg2).calls

\* C13: reduceRight has reduce's contract from the last element toward the
\* first: it returns what reverse(S).reduce(combine, initial) returns; with an
\* initial value combine is called once per element, starting with (initial,
\* last element); without one the last element seeds the accumulator; on an
\* empty stream it returns initial (undefined if none was given).
C13_ReduceRight ==
    /\ ReduceRightAsReversedReduce
    /\ \A k \in Returned("reduceRight") :
          LET r == results[k]
              q == Reverse(Alone(r.on))
          IN  /\ r.arg2 # Undefined =>
                    /\ r.out.calls = FoldCalls(r.arg, r.arg2, q)
                    /\ r.out.result = FoldResult(r.arg, r.arg2, q)
              /\ (r.arg2 = Undefined /\ q # <<>>) =>
                    /\ r.out.calls = FoldCalls(r.arg, Head(q), Tail(q))
                    /\ r.out.result = FoldResult(r.arg, Head(q), Tail(q))
              /\ q = <<>> => r.out.result = r.arg2 /\ r.out.calls = <<>>

\* C14: the engine never throws: with callbacks that do not throw (none of the
\* callbacks of this model does), no next() on a cursor, no toArray() and no
\* other consuming call raises an exception, whatever the elements are
\* (undefined included).
C14_EngineNeverThrows ==
    /\ \A i \in DOMAIN cursors : ~cursors[i].threw
    /\ \A k \in DOMAIN arrays : ~arrays[k].threw
    /\ \A k \in DOMAIN results : ~results[k].out.threw

\* C15: stream(x) never fails: it returns x itself when x is a StreamImpl, a
\* stream of x's elements in order when x is iterable or has a numeric length,
\* and EMPTY_STREAM for every other value (numbers, plain objects, null,
\* undefined).
C15_StreamNeverFails ==
    \A k \in DOMAIN results :
        LET r == results[k]
            x == r.arg
        IN  r.op = "stream" =>
               /\ ~r.out.threw
               /\ x.t = "stream" => r.out.result = x.v
               /\ x.t = "array" => Alone(r.out.result) = x.v
               /\ (x.t = "object" /\ x.length.t = "number") => Alone(r.out.result) = x.v
               /\ (x.t \in {"number", "null", "undefined"}
                     \/ (x.t = "object" /\ x.length.t # "number")) =>
                        r.out.result = EMPTY_STREAM

\* the cursors (started iterators) held inside a stream value
RECURSIVE Started(_)
Started(s) ==
    IF s.op \in {"array", "tree", "arrayLike", "empty"} THEN {}
    ELSE IF s.op = "concat" THEN {s.iterator} \cup Started(s.src) \cup Started(s.other)
    ELSE Started(s.src)

\* C16: laziness: building a chain (map, filter, concat, flatMap, flat, tail,
\* distinct; a stream or tree stream as the argument of concat included) steps
\* no source, creates no cursor on a source and calls no callback or children
\* function: the stream as built (`fresh`) holds no started cursor.
C16_Laziness == Started(fresh) = {}

(***************************************************************************)
(* Scans                                                                   *)
(***************************************************************************)
Scans == PredScans \cup ValueScans

\* the element at (0-based) index decides the result of the scan
Decides(op, arg, fromIndex, index, value) ==
    CASE op \in {"find", "findIndex", "some"} -> Truthy(ApplyPred(arg, value))
      [] op = "every" -> ~Truthy(ApplyPred(arg, value))
      [] op = "includes" -> value = arg
      [] op = "indexOf" -> value = arg /\ index >= fromIndex

\* the 1-based positions of q that decide
Deciding(op, arg, fromIndex, q) ==
    {n \in DOMAIN q : Decides(op, arg, fromIndex, n - 1, q[n])}

Min(S) == CHOOSE n \in S : \A o \in S : n <= o

\* C17: find, findIndex, includes, indexOf, every and some scan from the left
\* and stop at the first deciding element: when it is at index k they make
\* exactly k + 1 steps, invoke the predicate on the elements 0..k only and
\* return the element / k / true / false (every); when no element decides
\* they step to exhaustion and return undefined / -1 / false / true (every).
C17_ShortCircuit ==
    \A i \in DOMAIN results :
        LET r == results[i]
            q == Alone(r.on)
            D == Deciding(r.op, r.arg, r.arg2, q)
            n == Min(D)
        IN  (r.op \in Scans /\ ~r.out.threw) =>
               IF D # {}
               THEN /\ r.out.steps = n
                    /\ r.op \in PredScans => r.out.tested = SubSeq(q, 1, n)
                    /\ r.out.result =
                          CASE r.op = "find" -> q[n]
                            [] r.op \in {"findIndex", "indexOf"} -> Num(n - 1)
                            [] r.op \in {"some", "includes"} -> Bool(TRUE)
                            [] r.op = "every" -> Bool(FALSE)
               ELSE /\ r.out.steps = Len(q) + 1
                    /\ r.op \in PredScans => r.out.tested = q
                    /\ r.out.result =
                          CASE r.op = "find" -> Undefined
                            [] r.op \in {"findIndex", "indexOf"} -> Num(-1)
                            [] r.op \in {"some", "includes"} -> Bool(FALSE)
                            [] r.op = "every" -> Bool(TRUE)

\* a scan that stopped at its second element with elements left after it
C17_Witness ==
    \E i \in DOMAIN results :
        LET r == results[i]
            q == Alone(r.on)
        IN  /\ r.op \in Scans
            /\ ~r.out.threw
            /\ Deciding(r.op, r.arg, r.arg2, q) # {}
            /\ Min(Deciding(r.op, r.arg, r.arg2, q)) = 2
            /\ Len(q) > 2
            /\ r.out.steps = 2

(***************************************************************************)
(* flatMap / flat                                                          *)
(***************************************************************************)
\* the concatenation, over the elements e of q in order, of the elements of
\* f(e) when f(e) is an array and of the single value f(e) otherwise
RECURSIVE FlatMapOf(_, _)
FlatMapOf(f, q) ==
    IF q = <<>> THEN <<>>
    ELSE LET mapped == ApplyFlat(f, Head(q))
         IN  (IF mapped.t = "array" THEN mapped.v ELSE <<mapped>>) \o FlatMapOf(f, Tail(q))

\* C18: S.flatMap(f).toArray() is the in-order concatenation over the elements e
\* of S of the elements of f(e) when f(e) is iterable (an array, which is no
\* StreamImpl; none when it is empty) and of the single value f(e) otherwise.
C18_FlatMapToArray ==
    \A k \in DOMAIN arrays :
        LET a == arrays[k]
        IN  a.on.op = "flatMap" =>
               /\ ~a.threw
               /\ a.result = FlatMapOf(a.on.f, Alone(a.on.src))

\* the same on the values toArray()'s loop received, for the calls that returned
FlatMapProduced ==
    \A k \in DOMAIN arrays :
        LET a == arrays[k]
        IN  (a.on.op = "flatMap" /\ ~a.threw) =>
               a.produced = FlatMapOf(a.on.f, Alone(a.on.src))

\* q with each array element replaced by its elements, the other elements in place
RECURSIVE FlatOnce(_)
FlatOnce(q) ==
    IF q = <<>> THEN <<>>
    ELSE (IF Head(q).t = "array" THEN Head(q).v ELSE <<Head(q)>>) \o FlatOnce(Tail(q))

\* the array source the stream was built on
RECURSIVE Base(_)
Base(s) == IF s.op \in {"array", "tree"} THEN s ELSE Base(s.src)

\* C19: flat(depth) with depth <= 0 yields the elements of the original stream;
\* flat(1) replaces each iterable element by its elements in order and leaves
\* the other elements in place; flat(depth).toArray() = flat(depth - 1).flat(1)
\* .toArray() for depth > 1; on [[1, [2, 3]], [4]] flat(2) yields [1, 2, 3, 4]
\* and flat(1) yields [1, [2, 3], 4].
C19_Flat ==
    /\ \A depth \in -1..0 : Alone(flat(Base(fresh), depth)) = Alone(Base(fresh))
    /\ \A depth \in 2..MaxDepth :
          toArray(flat(Base(fresh), depth)).result
             = toArray(flat(flat(Base(fresh), depth - 1), 1)).result
    /\ \A k \in DOMAIN arrays :
          LET a == arrays[k]
          IN  /\ a.on.op = "flat" => ~a.threw /\ a.produced = FlatOnce(Alone(a.on.src))
              /\ a.on = flat([op |-> "array", elems |-> NESTED], 2) =>
                    a.result = <<Num(1), Num(2), Num(3), Num(4)>>
              /\ a.on = flat([op |-> "array", elems |-> NESTED], 1) =>
                    a.result = <<Num(1), Arr(<<"N23">>, <<Num(2), Num(3)>>), Num(4)>>

\* the same for the flat streams whose toArray() returned
FlatReturned ==
    /\ \A depth \in -1..0 : Alone(flat(Base(fresh), depth)) = Alone(Base(fresh))
    /\ \A depth \in 2..MaxDepth :
          toArray(flat(Base(fresh), depth)).result
             = toArray(flat(flat(Base(fresh), depth - 1), 1)).result
    /\ \A k \in DOMAIN arrays :
          LET a == arrays[k]
          IN  /\ (a.on.op = "flat" /\ ~a.threw) => a.produced = FlatOnce(Alone(a.on.src))
              /\ a.on = flat([op |-> "array", elems |-> NESTED], 2) =>
                    a.result = <<Num(1), Num(2), Num(3), Num(4)>>
              /\ a.on = flat([op |-> "array", elems |-> NESTED], 1) =>
                    a.result = <<Num(1), Arr(<<"N23">>, <<Num(2), Num(3)>>), Num(4)>>

\* what a cursor on s, the only one, has returned after n calls of next()
RECURSIVE StepsLoop(_, _, _, _)
StepsLoop(s, st, n, acc) ==
    IF n = 0 THEN acc
    ELSE LET r == NextFn(s, st)
             isValue == ~r.result.thrown /\ ~r.result.done
         IN  StepsLoop(r.strm, r.state, n - 1,
                       [out |-> IF isValue THEN Append(acc.out, r.result.value) ELSE acc.out,
                        lastDone |-> r.result.done,
                        threw |-> acc.threw \/ r.result.thrown])

Steps(s, n) ==
    LET b == StartFn(s)
    IN  StepsLoop(b.strm, b.state, n, [out |-> <<>>, lastDone |-> FALSE, threw |-> b.thrown])

\* no stream of the chain keeps a cursor or a set of its own, which the
\* sessions of the chain would share (concat and distinct do)
RECURSIVE NothingShared(_)
NothingShared(s) ==
    IF s.op \in {"array", "tree"} THEN TRUE
    ELSE s.op \notin {"concat", "distinct"} /\ NothingShared(s.src)

\* C20: S.flatMap(f) and S.map(f).flat(1) produce the same elements step by
\* step: after any number of next() calls a cursor on S.flatMap(f) has returned
\* what a cursor on S.map(f).flat(1) has returned after as many calls (the
\* same values in the same order, done at the same call, a throw at the same
\* call).  Where the sessions of S share a cursor or a set, the two are
\* compared as the only session on S.
C20_FlatMapIsMapFlat ==
    fresh.op = "flatMap" =>
       \A i \in DOMAIN cursors :
          LET c == cursors[i]
              mapFlat == flat(map(fresh.src, fresh.f), 1)
          IN  (NothingShared(fresh.src) \/ (Len(cursors) = 1 /\ arrays = <<>>)) =>
                 [out |-> c.out, lastDone |-> c.lastDone, threw |-> c.threw]
                    = Steps(mapFlat, c.calls)

\* a cursor on a flatMap stream that drained a nested array and went on to the
\* next element of the source
C20_Witness ==
    /\ fresh.op = "flatMap"
    /\ fresh.f = "twice"
    /\ \E i \in DOMAIN cursors : Len(cursors[i].out) >= 3

(***************************************************************************)
(* tail                                                                    *)
(***************************************************************************)
MinOf(a, b) == IF a <= b THEN a ELSE b

Drop(q, k) == SubSeq(q, MinOf(k, Len(q)) + 1, Len(q))

\* C21: S.tail(k).toArray() is S.toArray() without its first min(k, n)
\* elements, n the number of elements of S; it is empty and no error is
\* raised when k > n; the pre-advance makes at most min(k, n + 1) steps on S.
C21_Tail ==
    /\ fresh.op = "tail" /\ fresh.src = Base(fresh) =>
          StartFn(fresh).steps <= MinOf(fresh.skipCount, Len(Alone(fresh.src)) + 1)
    /\ \A i \in DOMAIN arrays :
          LET a == arrays[i]
              n == Len(Alone(a.on.src))
              k == a.on.skipCount
          IN  a.on.op = "tail" =>
                 /\ ~a.threw
                 /\ a.result = Drop(toArray(a.on.src).result, MinOf(k, n))
                 /\ k > n => a.result = <<>>

\* the same on the values that toArray()'s loop received
TailProduced ==
    /\ fresh.op = "tail" /\ fresh.src = Base(fresh) =>
          StartFn(fresh).steps = MinOf(fresh.skipCount, Len(Alone(fresh.src)) + 1)
    /\ \A i \in DOMAIN arrays :
          LET a == arrays[i]
          IN  a.on.op = "tail" =>
                 ~a.threw /\ a.produced = Drop(Alone(a.on.src), a.on.skipCount)

(***************************************************************************)
(* Laziness of map, concat and filter, on the events of a cursor's log     *)
(***************************************************************************)
\* the arguments of the callback invocations made by `by`, in order
CallsBy(log, at) ==
    LET IsCall(e) == e.ev = "call" /\ e.at = at
        calls == SelectSeq(log, IsCall)
    IN  [k \in DOMAIN calls |-> calls[k].arg]

\* what the steps made at `at` returned, in order
StepsBy(log, at) ==
    LET IsStep(e) == e.ev = "step" /\ e.at = at
        steps == SelectSeq(log, IsStep)
    IN  [k \in DOMAIN steps |-> steps[k].arg]

\* the elements that the steps made at `at` returned, in order
ValueSteps(log, at) ==
    LET IsElement(result) == ~result.done /\ ~result.thrown
        elements == SelectSeq(StepsBy(log, at), IsElement)
    IN  [k \in DOMAIN elements |-> elements[k].value]

\* C22: map applies its callback lazily and without memoization: in every
\* iteration session of S.map(f), f has been invoked exactly once for each
\* element of S stepped so far, in order, and for no other element; every
\* session does so anew.
C22_MapLazy ==
    fresh.op = "map" =>
       \A i \in DOMAIN cursors :
          LET c == cursors[i]
              at == ChainLen(fresh)
              calls == CallsBy(c.log, at)
          IN  /\ calls = ValueSteps(c.log, at)
              /\ Len(calls) = Len(c.out)
              /\ c.out = [k \in DOMAIN calls |-> ApplyMap(fresh.f, calls[k])]
              /\ Len(StepsBy(c.log, at)) = c.calls
              /\ fresh.src = Base(fresh) => IsPrefix(calls, Alone(fresh.src))

\* two sessions of one mapped stream that each went through both elements
C22_Witness ==
    /\ fresh.op = "map"
    /\ Len(cursors) = 2
    /\ \A i \in DOMAIN cursors :
          Len(cursors[i].out) = 2 /\ Len(CallsBy(cursors[i].log, ChainLen(fresh))) = 2

\* C24: filter does not advance past elements not yet requested: right after
\* a step of S.filter(p) returned the element at source index i, the source
\* cursor has been stepped exactly i + 1 times, each step returning an element,
\* and p has been invoked on the elements at indices 0..i, once each.
C24_FilterLazy ==
    fresh.op = "filter" =>
       \A k \in DOMAIN cursors :
          LET c == cursors[k]
              at == ChainLen(fresh)
              n == Len(StepsBy(c.log, at))
              stepped == ValueSteps(c.log, at)
              Keep(e) == Truthy(ApplyPred(fresh.p, e))
          IN  (c.lastValue /\ ~c.threw) =>
                 /\ Len(stepped) = n
                 /\ CallsBy(c.log, at) = stepped
                 /\ c.out[Len(c.out)] = stepped[n]
                 /\ c.out = SelectSeq(stepped, Keep)
                 /\ fresh.src = Base(fresh) => stepped = SubSeq(Alone(fresh.src), 1, n)

\* a filter cursor that skipped the first element, returned the second and has
\* left the third alone
C24_Witness ==
    /\ fresh.op = "filter"
    /\ \E k \in DOMAIN cursors :
          /\ cursors[k].lastValue
          /\ Len(cursors[k].out) = 1
          /\ Len(StepsBy(cursors[k].log, ChainLen(fresh))) = 2
          /\ Len(Alone(fresh.src)) > 2

\* C23: in every iteration session of S.concat(T), alone or inside a filter,
\* tail or distinct, T's cursor is not stepped before S's cursor has returned
\* done, and S's cursor is not stepped again after it has returned done.
C23_ConcatOrder ==
    \A i \in DOMAIN cursors :
        LET log == cursors[i].log
            FirstDone(a, at) ==
                /\ log[a].ev = "step" /\ log[a].by = "concat.first" /\ log[a].at = at
                /\ log[a].arg.done
        IN  \A b \in DOMAIN log :
               /\ (log[b].ev = "step" /\ log[b].by = "concat.other") =>
                     \E a \in 1..(b - 1) : FirstDone(a, log[b].at)
               /\ (log[b].ev = "step" /\ log[b].by = "concat.first") =>
                     \A a \in 1..(b - 1) : ~FirstDone(a, log[b].at)

\* a session of S.concat(T).filter(p) in which the filter rejected an element
\* of S and T's cursor has been stepped
C23_Witness ==
    /\ fresh.op = "filter"
    /\ fresh.src.op = "concat"
    /\ \E i \in DOMAIN cursors :
          LET log == cursors[i].log
          IN  /\ Len(CallsBy(log, ChainLen(fresh))) > Len(cursors[i].out)
              /\ \E b \in DOMAIN log : log[b].by = "concat.other" /\ ~log[b].arg.done
              /\ \E b \in DOMAIN log : log[b].by = "concat.first" /\ ~log[b].arg.done

(***************************************************************************)
(* join                                                                    *)
(***************************************************************************)
\* the string form of an element: the text 'undefined' for undefined, the
\* value's own textual form if it has one, the generic tag (what
\* Object.prototype.toString gives) otherwise
StringForm(e) ==
    CASE e.t = "undefined" -> "undefined"
      [] e.t = "string" -> e.v
      [] e.t = "number" -> NumberToString(e.v)
      [] e.t = "array" -> ArrayToString(e.v)
      [] e.t = "null" -> "[object Null]"

\* the string forms of q in order, sep between each adjacent pair
RECURSIVE Joined(_, _)
Joined(q, sep) ==
    IF q = <<>> THEN ""
    ELSE IF Len(q) = 1 THEN StringForm(q[1])
    ELSE StringForm(q[1]) \o sep \o Joined(Tail(q), sep)

\* C25: join(separator) returns the string forms of the n elements in order
\* with exactly max(n - 1, 0) separators, one between each adjacent pair; the
\* empty stream joins to ''; the separator defaults to ','; an undefined
\* element contributes 'undefined'; on [3, 1, 2, 3] join('-') is "3-1-2-3"
\* and indexOf(2) is 2.
C25_Join ==
    \A k \in DOMAIN results :
        LET r == results[k]
            q == r.on.elems
            sep == IF r.arg = Undefined THEN "," ELSE r.arg.v
        IN  /\ r.op = "join" =>
               /\ ~r.out.threw
               /\ r.out.result = Str(Joined(q, sep))
               /\ r.out.seps = (IF Len(q) = 0 THEN 0 ELSE Len(q) - 1)
               /\ (q = EXAMPLE /\ r.arg = Str("-")) => r.out.result = Str("3-1-2-3")
            /\ (r.op = "indexOf" /\ q = EXAMPLE /\ r.arg = Num(2) /\ r.arg2 = 0) =>
                  r.out.result = Num(2)

\* the same for the calls that returned
JoinReturned ==
    \A k \in DOMAIN results :
        LET r == results[k]
            q == r.on.elems
            sep == IF r.arg = Undefined THEN "," ELSE r.arg.v
        IN  /\ (r.op = "join" /\ ~r.out.threw) =>
               /\ r.out.result = Str(Joined(q, sep))
               /\ r.out.seps = (IF Len(q) = 0 THEN 0 ELSE Len(q) - 1)
               /\ (q = EXAMPLE /\ r.arg = Str("-")) => r.out.result = Str("3-1-2-3")
            /\ (r.op = "join" /\ r.out.threw) => \E n \in DOMAIN q : q[n] = Null
            /\ (r.op = "indexOf" /\ q = EXAMPLE /\ r.arg = Num(2) /\ r.arg2 = 0) =>
                  r.out.result = Num(2)

(***************************************************************************)
(* Finding CST nodes                                                       *)
(***************************************************************************)
\* the nodes found for a findNodeForProperty / findNodeForKeyword call on the root
FoundNodes(r) ==
    IF r.op = "findNodeForProperty"
    THEN findNodesForPropertyInternal(r.on, Num(0), 0, TRUE)
    ELSE findNodesForKeywordInternal(r.on, Num(0), 0).keywordNodes

FindOps == {"findNodeForProperty", "findNodeForKeyword"}

\* C26: findNodeForProperty and findNodeForKeyword select by clamped index:
\* with n >= 1 found nodes, an omitted index or one below 0 gives the first
\* found node, an index >= n the last and any other index i the i-th; the
\* result is undefined when nothing is found or when the node (or the
\* property) argument is undefined.
C26_ClampedIndex ==
    \A k \in DOMAIN results :
        LET r == results[k]
            nodes == FoundNodes(r)
            n == Len(nodes)
        IN  r.op \in FindOps =>
               IF r.node = Undefined
                  \/ (r.op = "findNodeForProperty" /\ r.property = Undefined)
                  \/ n = 0
               THEN r.out.result = Undefined
               ELSE IF r.index = Undefined \/ r.index.v < 0 THEN r.out.result = nodes[1]
               ELSE IF r.index.v >= n THEN r.out.result = nodes[n]
               ELSE r.out.result = nodes[r.index.v + 1]

\* a call with three found nodes that returned the middle one
C26_Witness ==
    \E k \in DOMAIN results :
        LET r == results[k]
        IN  /\ r.op \in FindOps
            /\ r.node # Undefined
            /\ Len(FoundNodes(r)) = 3
            /\ r.index = Num(1)
            /\ r.out.result = FoundNodes(r)[2]

(***************************************************************************)
(* findNameAssignment                                                      *)
(***************************************************************************)
HasNameAssignment(type) == \E pos \in DOMAIN type.contents : type.contents[pos].k = "name"

\* C27: findNameAssignment(type) returns an Assignment only when the type is
\* inferred from a parser rule and that rule itself contains an assignment
\* to `name`; in every other case (a rule without a `name` assignment of its
\* own included) it returns undefined.
C27_NameAssignment ==
    \A k \in DOMAIN results :
        LET r == results[k]
        IN  (r.op = "findNameAssignment" /\ r.out.result # Undefined) =>
               /\ grammar[r.type].kind = "ParserRule"
               /\ HasNameAssignment(grammar[r.type])
               /\ r.out.result.type = r.type

(***************************************************************************)
(* Call depth of reduceRight                                               *)
(***************************************************************************)
\* the pending recursiveReduce invocations needed for a stream of one element
DepthForOne(f, initialValue) ==
    reduceRight([op |-> "array", elems |-> <<Num(1)>>], f, initialValue).depth

\* C28: the number of simultaneously pending recursiveReduce invocations of
\* reduceRight does not grow with the length of the stream: a longer stream
\* needs no more of them than a stream of one element.
C28_ReduceRightDepth ==
    \A k \in Returned("reduceRight") :
        results[k].out.depth <= DepthForOne(results[k].arg, results[k].arg2)

\* what the depth is: one pending invocation per element, and one more for
\* the call that finds the stream exhausted
ReduceRightDepthIsLength ==
    \A k \in Returned("reduceRight") :
        results[k].out.depth = Len(Alone(results[k].on)) + 1

(***************************************************************************)
(* The stack of a tree cursor                                              *)
(***************************************************************************)
\* the nodes from the root down to n
RECURSIVE PathTo(_, _)
PathTo(parent, n) ==
    IF n = 0 THEN <<0>> ELSE Append(PathTo(parent, parent[n]), n)

\* children of the root have depth 1
DepthOf(parent, n) == Cardinality(Ancestors(parent, n))

\* one sibling cursor per open level: the cursors over the children of the
\* ancestors of n, each one standing right behind the node of the path to n,
\* and on top an unused cursor over the children of n
OpenLevels(parent, n) ==
    LET path == PathTo(parent, n)
    IN  [j \in 1..Len(path) |->
            LET siblings == children(parent, Num(path[j]))
            IN  IF j < Len(path)
                THEN [elems |-> siblings, index |-> Pos(siblings, Num(path[j + 1]))]
                ELSE ArrayIterator(siblings)]

\* the last step on c returned a node
ReturnedNode(c) == c.calls > 0 /\ ~c.lastDone /\ ~c.threw /\ Len(c.out) > 0

LastNode(c) == c.out[Len(c.out)].v

\* C29: tree cursor stack invariant: after a step that returned a node at
\* depth d the stack holds exactly d + 1 sibling cursors, one per open level
\* from the root's children down to the children of the returned node, the top
\* one being the cursor over the returned node's children; the stack holds
\* exactly one cursor before the first step, and it is empty only after a
\* step that returned exhausted.
C29_TreeStack ==
    strm.op = "tree" =>
        \A i \in DOMAIN cursors :
            LET c == cursors[i]
                stack == c.state.iterators
            IN  /\ c.calls = 0 =>
                      stack = <<ArrayIterator(children(strm.parent, strm.root))>>
                /\ ReturnedNode(c) =>
                      /\ Len(stack) = DepthOf(strm.parent, LastNode(c)) + 1
                      /\ stack = OpenLevels(strm.parent, LastNode(c))
                /\ Len(stack) = 0 => (c.calls > 0 /\ c.lastDone)

C29_Witness ==
    /\ strm.op = "tree"
    /\ strm.parent = <<0, 1, 1>>
    /\ \E i \in DOMAIN cursors :
          /\ ReturnedNode(cursors[i])
          /\ cursors[i].out = <<Num(1), Num(2), Num(3)>>
          /\ Len(cursors[i].state.iterators) = 3
          /\ cursors[i].state.iterators[2].index = 2

(***************************************************************************)
(* The pending-prune flag                                                  *)
(***************************************************************************)
\* what is left of the pre-order sequence behind node n
Behind(parent, n) ==
    LET q == PreOrderOf(parent, Num(0))
    IN  SubSeq(q, Pos(q, Num(n)) + 1, Len(q))

\* what is left behind node n without the proper descendants of n
BehindPruned(parent, n) ==
    LET Outside(node) == n \notin Ancestors(parent, node.v)
    IN  SelectSeq(Behind(parent, n), Outside)

\* the step from c to d returned the head of rest, or done if nothing is left
StepReturns(c, d, rest) ==
    IF rest = <<>>
    THEN d.lastDone /\ d.out = c.out
    ELSE ~d.lastDone /\ d.out = Append(c.out, Head(rest))

\* C30: the pending-prune flag is a one-shot, idempotent request: a further
\* prune() between two steps changes nothing, the next step drops exactly the
\* subtree of the node returned last (one cursor of the stack), the flag is
\* unset whenever a step returns, and a step taken with the flag unset goes on
\* in pre-order whatever was pruned before.
C30_PruneOneShot ==
    [][strm.op = "tree" =>
        \A i \in DOMAIN cursors :
            LET c == cursors[i]
                d == cursors'[i]
                stepped == d.calls = c.calls + 1
            IN  /\ stepped => ~d.state.pruned
                /\ (d.calls = c.calls /\ c.state.pruned) => d.state = c.state
                /\ (stepped /\ ReturnedNode(c) /\ c.state.pruned) =>
                      /\ StepReturns(c, d, BehindPruned(strm.parent, LastNode(c)))
                      /\ Len(d.state.iterators) <= Len(c.state.iterators)
                /\ (stepped /\ ReturnedNode(c) /\ ~c.state.pruned) =>
                      StepReturns(c, d, Behind(strm.parent, LastNode(c)))]_vars

\* prune() was called twice after the step that returned node 1, and the next
\* step returned node 3, the sibling of node 1
C30_Witness ==
    /\ strm.op = "tree"
    /\ strm.parent = <<0, 1, 0>>
    /\ \E i \in DOMAIN cursors :
          /\ cursors[i].calls = 2
          /\ cursors[i].out = <<Num(1), Num(3)>>
          /\ cursors[i].pruned = {Num(1)}
          /\ cursors[i].misuse
          /\ ~cursors[i].state.pruned

(***************************************************************************)
(* prune() where no step has just returned a node                          *)
(***************************************************************************)
\* C31: pruning edge cases degrade to an empty remainder without failing: a
\* step on a fresh tree cursor on which prune() was called returns exhausted
\* and emits no node; once a step has returned exhausted every later step
\* does, prune() in between or not; no step and no prune() raises an error.
C31_PruneEdgeCases ==
    [][strm.op = "tree" =>
        \A i \in DOMAIN cursors :
            LET c == cursors[i]
                d == cursors'[i]
                stepped == d.calls = c.calls + 1
            IN  /\ ~d.threw
                /\ (stepped /\ c.calls = 0 /\ c.state.pruned) =>
                      d.lastDone /\ d.out = <<>>
                /\ (stepped /\ c.lastDone) => d.lastDone /\ d.out = c.out
                /\ (c.calls > 0 /\ c.out = <<>>) => d.out = <<>>]_vars

\* on a tree with nodes: one cursor pruned before its first step, which then
\* returned exhausted, and one cursor that went through the tree, had prune()
\* called after it returned exhausted, and was stepped again
C31_Witness ==
    /\ strm.op = "tree"
    /\ Len(strm.parent) > 0
    /\ \E i, j \in DOMAIN cursors :
          /\ cursors[i].calls > 0 /\ cursors[i].out = <<>> /\ cursors[i].lastDone
          /\ cursors[i].misuse /\ ~cursors[i].threw
          /\ cursors[j].out = PreOrderOf(strm.parent, Num(0)) /\ cursors[j].lastDone
          /\ cursors[j].pruned = {} /\ cursors[j].misuse /\ ~cursors[j].state.pruned
          /\ cursors[j].calls >= Len(cursors[j].out) + 2
          /\ ~cursors[j].threw

\* the CST nodes strictly between the root and node n
Between(cst, n) == Ancestors(cst.parent, n) \ {0}

\* every node strictly between the root and d belongs to the root's element
SameElementAbove(cst, d) ==
    \A a \in Between(cst, d.v) : ElementOf(cst, Num(a)) = ElementOf(cst, Num(0))

\* C32: findNodesForKeyword(node, keyword), for a node that is not itself a
\* matching keyword node, returns in pre-order exactly the proper descendants
\* d of node whose feature is the keyword, whose element is node.element and
\* with every node strictly between node and d of that element too; below a
\* descendant of another element no node is visited or returned.
C32_KeywordNodes ==
    \A k \in DOMAIN results :
        LET r == results[k]
            cst == r.on
            all == PreOrderOf(cst.parent, Num(0))
            Matches(d) == /\ FeatureOf(cst, d) = "keyword"
                          /\ ElementOf(cst, d) = ElementOf(cst, Num(0))
                          /\ SameElementAbove(cst, d)
            Reached(d) == SameElementAbove(cst, d)
        IN  (r.op = "findNodesForKeyword" /\ r.node # Undefined
             /\ FeatureOf(cst, Num(0)) # "keyword") =>
                /\ r.out.result = SelectSeq(all, Matches)
                /\ r.out.visited = SelectSeq(all, Reached)

\* node 1 is of another element and has the keyword node 2 of the root's
\* element below it, which is neither visited nor returned; its sibling 3 is
\* returned
C32_Witness ==
    \E k \in DOMAIN results :
        LET r == results[k]
        IN  /\ r.op = "findNodesForKeyword"
            /\ r.node = Num(0)
            /\ r.on.parent = <<0, 1, 0>>
            /\ r.on.element = <<1, 0, 0>>
            /\ r.on.feature[2] = "keyword"
            /\ r.out.result = <<Num(3)>>
            /\ r.out.visited = <<Num(1), Num(3)>>

\* the type that the search goes on with from type t: the one referred to by
\* the first rule call of a parser rule or type reference among the contents
\* of t, if that comes before any `name` assignment and is unassigned; 0 if
\* there is none
GoesOnWith(g, t) ==
    LET pos == FirstBranch(g, g[t].contents, 1)
    IN  IF pos = 0 THEN 0
        ELSE IF g[t].contents[pos].k = "name" \/ g[t].contents[pos].assigned THEN 0
        ELSE g[t].contents[pos].ref

\* the chain of types from t on, cut after n types
RECURSIVE Chain(_, _, _)
Chain(g, t, n) ==
    IF n = 0 \/ t = 0 THEN <<>> ELSE <<t>> \o Chain(g, GoesOnWith(g, t), n - 1)

\* the chain from t comes back to one of its types
Cyclic(g, t) == Len(Chain(g, t, Len(g) + 1)) > Len(g)

NoDuplicates(q) == \A a, b \in DOMAIN q : q[a] = q[b] => a = b

\* C33: findNameAssignment terminates for every finite grammar, grammars in
\* which unassigned rule calls or type references form a cycle included: each
\* type is entered at most once per call, being recorded in the cache before
\* its contents are searched, and a cyclic chain yields undefined.
C33_NameAssignmentTerminates ==
    \A k \in DOMAIN results :
        LET r == results[k]
        IN  r.op = "findNameAssignment" =>
               /\ NoDuplicates(r.out.entered)
               /\ Len(r.out.entered) <= Len(grammar)
               /\ \A t \in DOMAIN grammar :
                     (\E a \in DOMAIN r.out.entered : r.out.entered[a] = t)
                        => t \in DOMAIN r.out.cashed
               /\ IsPrefix(r.out.entered, Chain(grammar, r.type, Len(grammar)))
               /\ Cyclic(grammar, r.type) => r.out.result = Undefined

\* `A: B; B: A;`: the call on A entered A and B once each and returned undefined
C33_Witness ==
    \E k \in DOMAIN results :
        LET r == results[k]
        IN  /\ r.op = "findNameAssignment"
            /\ Len(grammar) = 2
            /\ r.type = 1
            /\ GoesOnWith(grammar, 1) = 2
            /\ GoesOnWith(grammar, 2) = 1
            /\ r.out.entered = <<1, 2>>
            /\ r.out.result = Undefined

(***************************************************************************)
(* C34                                                                     *)
(***************************************************************************)
\* the step is the handling of one request
Handles == Len(server'.responses) = Len(server.responses) + 1

Response == server'.responses[Len(server'.responses)]

\* the services called during the step
NewCalls == SubSeq(server'.calls, Len(server.calls) + 1, Len(server'.calls))

ServicesOf(calls) == [i \in 1..Len(calls) |-> calls[i].service]

EmptyResult(handler) ==
    IF handler = "completion" THEN CompletionListCreate ELSE <<>>

ProviderOf(handler) ==
    CASE handler = "completion" -> "CompletionProvider.getCompletion"
      [] handler = "references" -> "ReferenceFinder.findReferenceLocations"
      [] handler = "documentSymbol" -> "DocumentSymbolProvider.getSymbols"
      [] handler = "declaration" -> "GoToDeclaration.findDeclaration"

\* document `before` after it was parsed again
Reparsed(before) ==
    LET rootNode == [root |-> before.text, document |-> before.uri] IN
    [before EXCEPT !.parseResult = [value |-> rootNode],
                   !.precomputedScopes = computeScope(rootNode)]

\* C34: for each of the four request handlers (completion, references,
\* document symbols, declaration), a request whose uri has no document in
\* TextDocuments is answered with an empty result (an empty completion list
\* or an empty array), calls neither the parser, the scope computation nor a
\* provider, and leaves the parseResult and precomputedScopes of every
\* document as they were; a completion or declaration request on an open
\* document parses it again and overwrites its parseResult and
\* precomputedScopes, and a references or document symbols request on an
\* open document calls its provider only and changes no document.
C34_HandlerFrame ==
    [][Handles =>
         LET uri == Response.uri
             handler == Response.handler
             before == server.documents[uri]
         IN  IF before = NoDocument
             THEN /\ Response.result = EmptyResult(handler)
                  /\ NewCalls = <<>>
                  /\ server'.documents = server.documents
             ELSE IF handler \in {"completion", "declaration"}
             THEN /\ ServicesOf(NewCalls) =
                        <<"Parser.parse", "ScopeComputation.computeScope",
                          ProviderOf(handler)>>
                  /\ NewCalls[1].args = before.text
                  /\ server'.documents =
                        [server.documents EXCEPT ![uri] = Reparsed(before)]
             ELSE /\ ServicesOf(NewCalls) = <<ProviderOf(handler)>>
                  /\ server'.documents = server.documents]_vars

\* a document whose parseResult or precomputedScopes is not that of its text
Stale(document) ==
    /\ document # NoDocument
    /\ document # Reparsed(document)

\* a request without document was answered with the empty result while a
\* stale document was open, and a completion request on an open document was
\* answered after parsing it again
C34_Witness ==
    /\ server # NoServer
    /\ Len(server.responses) = 2
    /\ server.responses[1].handler = "completion"
    /\ server.responses[1].found
    /\ \E i \in 1..Len(server.calls) :
          /\ server.calls[i].service = "Parser.parse"
          /\ i > 1
          /\ server.calls[i - 1].service = "DocumentBuilder.build"
    /\ ~server.responses[2].found
    /\ server.responses[2].result = EmptyResult(server.responses[2].handler)
    /\ \E uri \in Uris : Stale(server.documents[uri])

====
